---- MODULE Spec2Model ----
(***************************************************************************)
(* The capture orchestration engine of the screenshot tool                 *)
(* (src/screenshot/screenshoter.go): the three nested bounded pools of     *)
(* CaptureURLs / CaptureURL / captureViewportScreenshots, the browser      *)
(* session of every viewport task, the tile segmentation arithmetic and    *)
(* the state primer setCookiesAndLocalStorage.                             *)
(***************************************************************************)
EXTENDS Integers, Sequences, FiniteSets, TLC

(***************************************************************************)
(* Bounds of the model.                                                    *)
(***************************************************************************)
MaxTargets == 3
MaxConcurrency == 2
MaxViewports == 4
MaxPageHeight == 10
MaxTasks == 7
MaxFaults == 2

(***************************************************************************)
(* Program constants.                                                      *)
(***************************************************************************)
ViewportPoolSize == 3
TilePoolSize == 4

NoErr == [stage |-> "nil"]

VARIABLES
    cfg,         \* s.Config: Concurrency, URLs (each with Viewports), ViewProof
    pageHeight,  \* per target: the height the page renders to (read from the DOM)
    mainPc,      \* CaptureURLs: "launch", "collect", "select", "returned"
    launched,    \* CaptureURLs: number of URLs whose goroutine was started
    collected,   \* CaptureURLs: number of doneChan receives
    sem,         \* CaptureURLs: slots of sem in use
    doneChan,    \* CaptureURLs: completion signals buffered in doneChan
    errChan,     \* CaptureURLs: errors buffered in errChan
    result,      \* CaptureURLs: the returned error ("none" until it returns)
    tpc,         \* per target goroutine: its position
    uRet,        \* per target: what CaptureURL returned
    uErrChan,    \* per target (CaptureURL): errors buffered in errChan
    viewportSem, \* per target (CaptureURL): slots of viewportSem in use
    ctx,         \* per target: the context of CaptureURL, its state and timeout (s)
    vpc,         \* per viewport goroutine: its position
    vErr,        \* per viewport goroutine: the error of captureWithViewport
    browserCtx,  \* per viewport goroutine: its browser session (0: none)
    sessions,    \* the browser sessions, by session id
    tiles,       \* per viewport: its tile goroutines (position, buffer)
    tErrChan,    \* per viewport (tile stage): errors buffered in errChan
    vpSem,       \* per viewport (tile stage): slots of vpSem in use
    files,       \* the image files written to the output directory
    sent,        \* history: per errChan, the errors in the order they were sent
    faults,      \* history: number of injected failures
    seg,         \* the tile stage of one viewport taken alone: heights, count, shots
    pr,          \* the stages of one session taken alone: jar, storage, priming
    be,          \* the process, its browser backends and the chrome container
    cf,          \* the configuration while validateConfig fills in its defaults
    out,         \* the output directory: directories, images and cookie logs by path
    full         \* the capture of one full-page stage taken alone: overlay, metrics

vars == <<cfg, pageHeight, mainPc, launched, collected, sem, doneChan, errChan,
          result, tpc, uRet, uErrChan, viewportSem, ctx, vpc, vErr,
          browserCtx, sessions, tiles, tErrChan, vpSem, files, sent, faults,
          seg, pr, be, cf, out, full>>

\* the variables of the orchestration, and those of the two parts taken alone
run == <<cfg, pageHeight, mainPc, launched, collected, sem, doneChan, errChan,
         result, tpc, uRet, uErrChan, viewportSem, ctx, vpc, vErr,
         browserCtx, sessions, tiles, tErrChan, vpSem, files, sent, faults>>

T == 1..MaxTargets
V == 1..MaxViewports

(***************************************************************************)
(* Errors keep the place they come from through every wrapping             *)
(* (fmt.Errorf with %w): the stage, the target, the viewport, the tile     *)
(* (-1: not a tile task) and whether the context was the cause.            *)
(***************************************************************************)
Err(stage, t, v, i, cause) ==
    [stage |-> stage, t |-> t, v |-> v, i |-> i, cause |-> cause]

\* browser sessions: every viewport task has an id of its own to create one under
SessionIds == 1..(MaxTargets * MaxViewports)
SessionId(t, v) == (t - 1) * MaxViewports + v
NoMetrics == [width |-> 0, height |-> 0]
NoSession == [state |-> "none", owner |-> <<>>, scrollY |-> 0,
              metrics |-> NoMetrics, users |-> {}]

Min(a, b) == IF a < b THEN a ELSE b

RECURSIVE SumTo(_, _)
SumTo(f, n) == IF n = 0 THEN 0 ELSE f[n] + SumTo(f, n - 1)

(***************************************************************************)
(* Segmentation arithmetic of captureViewportScreenshots.                  *)
(***************************************************************************)
\* the quotient cut off instead of rounded up
Trunc(ph, vh) == ph \div vh

\* math.Ceil(pageHeight / viewportHeight) on whole-pixel heights
Ceil(ph, vh) ==
    IF ph % vh = 0 THEN ph \div vh ELSE (ph \div vh) + 1

\* a tile count that leaves out the tile of the remainder
ViewportCountFloor(ph, vh) ==
    LET viewportCount == ph \div vh
    IN  IF viewportCount < 1 THEN 1 ELSE viewportCount

ViewportCount(ph, vh) ==
    LET viewportCount == Ceil(ph, vh)
    IN  IF viewportCount < 1 THEN 1 ELSE viewportCount

\* the single capture taken only for a page shorter than the viewport
SinglePathStrict(ph, vh) == ph < vh

SinglePath(ph, vh) == ph <= vh \/ ViewportCount(ph, vh) = 1

\* the offset of a tile without the clamp of the final tile
ScrollPosUnclamped(i, ph, vh) == i * vh

ScrollPos(i, ph, vh) ==
    LET scrollPos == i * vh
    IN  IF i = ViewportCount(ph, vh) - 1 /\ scrollPos + vh > ph
        THEN IF ph - vh < 0 THEN 0 ELSE ph - vh
        ELSE scrollPos

\* number of tile goroutines the tile stage starts
TileTasks(ph, vh) == IF SinglePath(ph, vh) THEN 0 ELSE ViewportCount(ph, vh)

(***************************************************************************)
(* Configurations.  A URL's viewport list is a prefix of the default       *)
(* viewport list (config.go copies DefaultViewports into a URL without     *)
(* viewports; main.go leaves a command-line URL with none).                *)
(***************************************************************************)
DefaultViewports ==
    [k \in V |-> IF k % 2 = 1 THEN [Width |-> 4, Height |-> 2]
                              ELSE [Width |-> 5, Height |-> 3]]

URLConfig == {[Viewports |-> [k \in 1..n |-> DefaultViewports[k]]] : n \in 0..MaxViewports}

NumURLs == Len(cfg.URLs)
Viewports(t) == cfg.URLs[t].Viewports
NumViewports(t) == IF t <= NumURLs THEN Len(Viewports(t)) ELSE 0
Tasks == {<<t, v>> \in T \X V : t <= NumURLs /\ v <= NumViewports(t)}

\* the size of a run of this configuration: its goroutines (targets, viewports,
\* tiles) and its proof stages
Work(urls, proof, heights) ==
    LET perViewport(t) ==
            [v \in 1..Len(urls[t].Viewports) |->
                1 + (IF proof THEN 1 ELSE 0)
                  + TileTasks(heights[t], urls[t].Viewports[v].Height)]
        perTarget == [t \in 1..Len(urls) |->
                         1 + SumTo(perViewport(t), Len(urls[t].Viewports))]
    IN  SumTo(perTarget, Len(urls))

\* the rendered page heights tried: no page, and pages of several tiles
PageHeights == {h \in 0..MaxPageHeight : h % 5 = 0}

NoSeg == [pc |-> "off"]
NoPr == [pc |-> "off"]
NoBe == [pc |-> "off"]
NoCf == [pc |-> "off"]
NoOut == [pc |-> "off"]
NoFull == [pc |-> "off"]

\* the state of the orchestration before CaptureURLs starts its first goroutine
Fresh ==
    /\ mainPc = "launch"
    /\ launched = 0
    /\ collected = 0
    /\ sem = 0
    /\ doneChan = 0
    /\ errChan = <<>>
    /\ result = [stage |-> "none"]
    /\ tpc = [t \in T |-> "idle"]
    /\ uRet = [t \in T |-> NoErr]
    /\ uErrChan = [t \in T |-> <<>>]
    /\ viewportSem = [t \in T |-> 0]
    /\ ctx = [t \in T |-> [state |-> "live", timeout |-> 0]]
    /\ vpc = [t \in T |-> [v \in V |-> "idle"]]
    /\ vErr = [t \in T |-> [v \in V |-> NoErr]]
    /\ browserCtx = [t \in T |-> [v \in V |-> 0]]
    /\ sessions = [s \in SessionIds |-> NoSession]
    /\ tiles = [t \in T |-> [v \in V |-> <<>>]]
    /\ tErrChan = [t \in T |-> [v \in V |-> <<>>]]
    /\ vpSem = [t \in T |-> [v \in V |-> 0]]
    /\ files = {}
    /\ sent = [urls |-> <<>>, url |-> [t \in T |-> <<>>],
                tiles |-> [t \in T |-> [v \in V |-> <<>>]]]
    /\ faults = 0

Init ==
    /\ \E n \in 1..MaxTargets :
         /\ cfg \in [Concurrency : 1..Min(MaxConcurrency, n),
                     URLs : [1..n -> URLConfig],
                     ViewProof : BOOLEAN]
         /\ pageHeight \in [1..n -> PageHeights]
    /\ Work(cfg.URLs, cfg.ViewProof, pageHeight) <= MaxTasks
    /\ \A t \in 1..NumURLs : NumViewports(t) = 0 => pageHeight[t] = 0
    /\ Fresh
    /\ seg = NoSeg
    /\ pr = NoPr
    /\ be = NoBe
    /\ cf = NoCf
    /\ out = NoOut
    /\ full = NoFull

(***************************************************************************)
(* A browser primitive run under the context of target t succeeds only     *)
(* while that context is live; it fails when the context is done and may   *)
(* fail on its own (an injected failure).                                  *)
(***************************************************************************)
\* a further failure may be injected: the size of a run, its goroutines and
\* (twice) its injected failures together, is bounded
Budget ==
    /\ faults < MaxFaults
    /\ Work(cfg.URLs, cfg.ViewProof, pageHeight) + 2 * (faults + 1) <= MaxTasks
CanFail(t) == ctx[t].state # "live" \/ Budget
Cause(t) == IF ctx[t].state # "live" THEN "ctx" ELSE "fault"
Charge(t) == faults' = IF ctx[t].state # "live" THEN faults ELSE faults + 1

\* an operation task <<t, v>> issues on browser session s
Use(s, t, v) == [sessions EXCEPT ![s].users = @ \cup {<<t, v>>}]

\* a select that takes the error buffered last
SelectLast(ch) == IF ch # <<>> THEN ch[Len(ch)] ELSE NoErr

\* the closing select of a function: the first buffered error, else nil
SelectErr(ch) == IF ch # <<>> THEN Head(ch) ELSE NoErr
Drain(ch) == IF ch # <<>> THEN Tail(ch) ELSE ch

(***************************************************************************)
(* CaptureURLs.                                                            *)
(***************************************************************************)
\* the loop over s.Config.URLs: acquire a slot of sem, start the goroutine
Launch ==
    /\ mainPc = "launch"
    /\ sem < cfg.Concurrency
    /\ sem' = sem + 1
    /\ launched' = launched + 1
    /\ tpc' = [tpc EXCEPT ![launched + 1] = "start"]
    /\ mainPc' = IF launched + 1 = NumURLs THEN "collect" ELSE "launch"
    /\ UNCHANGED <<seg, pr, be, cf, out, full>>
    /\ UNCHANGED <<cfg, pageHeight, collected, doneChan, errChan, result, uRet,
                   uErrChan, viewportSem, ctx, vpc, vErr, browserCtx, sessions,
                   tiles, tErrChan, vpSem, files, sent, faults>>

\* the loop receiving len(s.Config.URLs) times from doneChan
Collect ==
    /\ mainPc = "collect"
    /\ doneChan > 0
    /\ doneChan' = doneChan - 1
    /\ collected' = collected + 1
    /\ mainPc' = IF collected + 1 = NumURLs THEN "select" ELSE "collect"
    /\ UNCHANGED <<seg, pr, be, cf, out, full>>
    /\ UNCHANGED <<cfg, pageHeight, launched, sem, errChan, result, tpc, uRet,
                   uErrChan, viewportSem, ctx, vpc, vErr, browserCtx, sessions,
                   tiles, tErrChan, vpSem, files, sent, faults>>

\* the closing select on errChan
Return ==
    /\ mainPc = "select"
    /\ result' = SelectErr(errChan)
    /\ errChan' = Drain(errChan)
    /\ mainPc' = "returned"
    /\ UNCHANGED <<seg, pr, be, cf, out, full>>
    /\ UNCHANGED <<cfg, pageHeight, launched, collected, sem, doneChan, tpc,
                   uRet, uErrChan, viewportSem, ctx, vpc, vErr, browserCtx,
                   sessions, tiles, tErrChan, vpSem, files, sent, faults>>

(***************************************************************************)
(* The goroutine of one target: CaptureURL, then the error report and the  *)
(* deferred release of sem and send on doneChan.                           *)
(***************************************************************************)
\* errChan <- fmt.Errorf("error capturing URL ...") when CaptureURL returned e
Report(e) ==
    IF e # NoErr
    THEN /\ Len(errChan) < NumURLs
         /\ errChan' = Append(errChan, e)
         /\ sent' = [sent EXCEPT !.urls = Append(@, e)]
    ELSE UNCHANGED <<errChan, sent>>

\* the timeout CaptureURL gives the context of a target, in seconds
timeoutDuration(viewportsCount) == 120 + 60 * viewportsCount

\* CaptureURL up to wg.Wait: the context with its timeout, the URL directory,
\* then one goroutine per viewport
CaptureURLStart(t) ==
    /\ tpc[t] = "start"
    /\ \/ /\ vpc' = [vpc EXCEPT ![t] = [v \in V |->
                        IF v <= NumViewports(t) THEN "acquire" ELSE "idle"]]
          /\ tpc' = [tpc EXCEPT ![t] = "wait"]
          /\ ctx' = [ctx EXCEPT ![t].timeout = timeoutDuration(NumViewports(t))]
          /\ UNCHANGED <<uRet, faults, errChan, sent>>
       \/ /\ Budget          \* os.MkdirAll(urlDir) fails
          /\ faults' = faults + 1
          /\ uRet' = [uRet EXCEPT ![t] = Err("urldir", t, 0, -1, "fault")]
          /\ Report(Err("urldir", t, 0, -1, "fault"))
          /\ ctx' = [ctx EXCEPT ![t] = [state |-> "cancelled",
                                          timeout |-> timeoutDuration(NumViewports(t))]]
          /\ tpc' = [tpc EXCEPT ![t] = "release"]
          /\ UNCHANGED vpc
    /\ UNCHANGED <<seg, pr, be, cf, out, full>>
    /\ UNCHANGED <<cfg, pageHeight, mainPc, launched, collected, sem, doneChan,
                   result, uErrChan, viewportSem, vErr, browserCtx,
                   sessions, tiles, tErrChan, vpSem, files>>

\* one context for all targets: a deadline that expires ends every target
DeadlineShared(t) ==
    /\ tpc[t] = "wait"
    /\ ctx[t].state = "live"
    /\ Budget
    /\ faults' = faults + 1
    /\ ctx' = [u \in T |->
                IF u = t THEN [ctx[u] EXCEPT !.state = "deadline"]
                ELSE [ctx[u] EXCEPT !.state = IF @ = "live" THEN "cancelled" ELSE @]]
    /\ UNCHANGED <<seg, pr, be, cf, out, full>>
    /\ UNCHANGED <<cfg, pageHeight, mainPc, launched, collected, sem, doneChan,
                   errChan, result, tpc, uRet, uErrChan, viewportSem, vpc, vErr,
                   browserCtx, sessions, tiles, tErrChan, vpSem, files, sent>>

\* the deadline of context.WithTimeout expires while CaptureURL waits
Deadline(t) ==
    /\ tpc[t] = "wait"
    /\ ctx[t].state = "live"
    /\ Budget
    /\ faults' = faults + 1
    /\ ctx' = [ctx EXCEPT ![t].state = "deadline"]
    /\ UNCHANGED <<seg, pr, be, cf, out, full>>
    /\ UNCHANGED <<cfg, pageHeight, mainPc, launched, collected, sem, doneChan,
                   errChan, result, tpc, uRet, uErrChan, viewportSem, vpc, vErr,
                   browserCtx, sessions, tiles, tErrChan, vpSem, files, sent>>

\* wg.Wait, the select on errChan, the deferred cancel, and the report
CaptureURLReturn(t) ==
    /\ tpc[t] = "wait"
    /\ \A v \in V : vpc[t][v] \in {"idle", "done"}
    /\ uRet' = [uRet EXCEPT ![t] = SelectErr(uErrChan[t])]
    /\ uErrChan' = [uErrChan EXCEPT ![t] = Drain(@)]
    /\ ctx' = [ctx EXCEPT ![t].state = IF @ = "live" THEN "cancelled" ELSE @]
    /\ Report(SelectErr(uErrChan[t]))
    /\ tpc' = [tpc EXCEPT ![t] = "release"]
    /\ UNCHANGED <<seg, pr, be, cf, out, full>>
    /\ UNCHANGED <<cfg, pageHeight, mainPc, launched, collected, sem, doneChan,
                   result, viewportSem, vpc, vErr, browserCtx, sessions,
                   tiles, tErrChan, vpSem, files, faults>>

\* a target goroutine that ends without the deferred <-sem
ReleaseKept(t) ==
    /\ tpc[t] = "release"
    /\ tpc' = [tpc EXCEPT ![t] = "signal"]
    /\ UNCHANGED <<seg, pr, be, cf, out, full>>
    /\ UNCHANGED <<cfg, pageHeight, mainPc, launched, collected, sem, doneChan,
                   errChan, result, uRet, uErrChan, viewportSem, ctx, vpc, vErr,
                   browserCtx, sessions, tiles, tErrChan, vpSem, files, sent,
                   faults>>

\* deferred: <-sem
Release(t) ==
    /\ tpc[t] = "release"
    /\ sem' = sem - 1
    /\ tpc' = [tpc EXCEPT ![t] = "signal"]
    /\ UNCHANGED <<seg, pr, be, cf, out, full>>
    /\ UNCHANGED <<cfg, pageHeight, mainPc, launched, collected, doneChan,
                   errChan, result, uRet, uErrChan, viewportSem, ctx, vpc, vErr,
                   browserCtx, sessions, tiles, tErrChan, vpSem, files, sent,
                   faults>>

\* deferred: doneChan <- struct{}{}
Signal(t) ==
    /\ tpc[t] = "signal"
    /\ doneChan < NumURLs
    /\ doneChan' = doneChan + 1
    /\ tpc' = [tpc EXCEPT ![t] = "done"]
    /\ UNCHANGED <<seg, pr, be, cf, out, full>>
    /\ UNCHANGED <<cfg, pageHeight, mainPc, launched, collected, sem, errChan,
                   result, uRet, uErrChan, viewportSem, ctx, vpc, vErr,
                   browserCtx, sessions, tiles, tErrChan, vpSem, files, sent,
                   faults>>

(***************************************************************************)
(* The goroutine of one viewport of one target (CaptureURL's go func) and  *)
(* captureWithViewport.                                                    *)
(***************************************************************************)
Height(t, v) == Viewports(t)[v].Height

\* the device metrics the full-page capture leaves on the session (the page
\* heights of the runs are below its limit) and those a tile asks for
FullMetrics(t, v) == [width |-> Viewports(t)[v].Width, height |-> pageHeight[t]]
TileMetrics(t, v) == [width |-> Viewports(t)[v].Width, height |-> Height(t, v)]

\* one browser context kept per target and handed to each of its viewports
SharedContext(t, v) ==
    LET s == SessionId(t, 1)
    IN  /\ sessions' = [sessions EXCEPT ![s] =
                           IF @.state = "none"
                           THEN [state |-> "live", owner |-> <<t, v>>,
                                 scrollY |-> 0, metrics |-> FullMetrics(t, v),
                                 users |-> {<<t, v>>}]
                           ELSE [@ EXCEPT !.users = @ \cup {<<t, v>>}]]
        /\ browserCtx' = [browserCtx EXCEPT ![t][v] = s]

\* chromedp.NewContext: a fresh browser session, held in the local browserCtx
\* (metrics: as the stages before the tile stage leave the session)
NewContext(t, v) ==
    /\ sessions' = [sessions EXCEPT ![SessionId(t, v)] =
                       [state |-> "live", owner |-> <<t, v>>,
                        scrollY |-> 0, metrics |-> FullMetrics(t, v),
                        users |-> {<<t, v>>}]]
    /\ browserCtx' = [browserCtx EXCEPT ![t][v] = SessionId(t, v)]

\* a viewport goroutine that goes on without a slot of viewportSem being free
AcquireViewportUnbounded(t, v) ==
    /\ vpc[t][v] = "acquire"
    /\ viewportSem' = [viewportSem EXCEPT ![t] = @ + 1]
    /\ vpc' = [vpc EXCEPT ![t][v] = "run"]
    /\ UNCHANGED <<seg, pr, be, cf, out, full>>
    /\ UNCHANGED <<cfg, pageHeight, mainPc, launched, collected, sem, doneChan,
                   errChan, result, tpc, uRet, uErrChan, ctx, vErr, browserCtx,
                   sessions, tiles, tErrChan, vpSem, files, sent, faults>>

\* viewportSem <- struct{}{}
AcquireViewport(t, v) ==
    /\ vpc[t][v] = "acquire"
    /\ viewportSem[t] < ViewportPoolSize
    /\ viewportSem' = [viewportSem EXCEPT ![t] = @ + 1]
    /\ vpc' = [vpc EXCEPT ![t][v] = "run"]
    /\ UNCHANGED <<seg, pr, be, cf, out, full>>
    /\ UNCHANGED <<cfg, pageHeight, mainPc, launched, collected, sem, doneChan,
                   errChan, result, tpc, uRet, uErrChan, ctx, vErr, browserCtx,
                   sessions, tiles, tErrChan, vpSem, files, sent, faults>>

\* the stages of captureWithViewport in their order, and the image each writes
Stages == IF cfg.ViewProof THEN <<"proof", "full", "tiles">> ELSE <<"full", "tiles">>
Image(stage, t, v) ==
    IF stage = "tiles" THEN [kind |-> "tile", t |-> t, v |-> v, n |-> 1]
                       ELSE [kind |-> stage, t |-> t, v |-> v, n |-> 0]
ImagesBefore(k, t, v) == {Image(Stages[j], t, v) : j \in 1..(k - 1)}

(***************************************************************************)
(* The goroutine body up to the tile goroutines: the viewport directory,   *)
(* the choice of the browser backend, the session, then                    *)
(* captureFullPageWithViewProof (when the proof-key list is not empty),    *)
(* captureFullPageScreenshot and captureViewportScreenshots, each entered  *)
(* only when the one before returned nil.  The stages work on this task's  *)
(* session and files only.                                                 *)
(***************************************************************************)
CaptureWithViewport(t, v) ==
    /\ vpc[t][v] = "run"
    /\ LET ph == pageHeight[t]
           vh == Height(t, v)
       IN
       \/ /\ Budget                      \* no directory or no browser backend
          /\ faults' = faults + 1
          /\ \E stage \in {"vpdir", "resolve"} :
                vErr' = [vErr EXCEPT ![t][v] = Err(stage, t, v, -1, "fault")]
          /\ vpc' = [vpc EXCEPT ![t][v] = "exit"]
          /\ UNCHANGED <<sessions, browserCtx, files, tiles>>
       \/ /\ CanFail(t)                  \* stage k fails, the stages before it succeeded
          /\ Charge(t)
          /\ NewContext(t, v)
          /\ \E k \in 1..Len(Stages) :
                /\ ctx[t].state # "live" => k = 1
                /\ vErr' = [vErr EXCEPT ![t][v] = Err(Stages[k], t, v, -1, Cause(t))]
                /\ files' = files \cup ImagesBefore(k, t, v)
          /\ vpc' = [vpc EXCEPT ![t][v] = "teardown"]
          /\ UNCHANGED tiles
       \/ /\ ctx[t].state = "live"             \* one tile, captured by this goroutine
          /\ SinglePath(ph, vh)
          /\ NewContext(t, v)
          /\ files' = files \cup ImagesBefore(Len(Stages) + 1, t, v)
          /\ vpc' = [vpc EXCEPT ![t][v] = "teardown"]
          /\ UNCHANGED <<tiles, vErr, faults>>
       \/ /\ ctx[t].state = "live"             \* viewportCount tile goroutines
          /\ ~SinglePath(ph, vh)
          /\ NewContext(t, v)
          /\ files' = files \cup ImagesBefore(Len(Stages), t, v)
          /\ tiles' = [tiles EXCEPT ![t][v] =
                          [k \in 1..ViewportCount(ph, vh) |->
                              [pc |-> "acquire", buf |-> -1, metrics |-> NoMetrics]]]
          /\ vpc' = [vpc EXCEPT ![t][v] = "tilewait"]
          /\ UNCHANGED <<vErr, faults>>
    /\ UNCHANGED <<seg, pr, be, cf, out, full>>
    /\ UNCHANGED <<cfg, pageHeight, mainPc, launched, collected, sem, doneChan,
                   errChan, result, tpc, uRet, uErrChan, viewportSem, ctx,
                   tErrChan, vpSem, sent>>

\* the file name of tile i carries the index i + 1
TileIndex(i) == i + 1

\* a tile goroutine that starts without waiting for a slot of vpSem
AcquireTileUnbounded(t, v, i) ==
    /\ tiles[t][v][i + 1].pc = "acquire"
    /\ vpSem' = [vpSem EXCEPT ![t][v] = @ + 1]
    /\ tiles' = [tiles EXCEPT ![t][v][i + 1].pc = "scroll"]
    /\ UNCHANGED <<seg, pr, be, cf, out, full>>
    /\ UNCHANGED <<cfg, pageHeight, mainPc, launched, collected, sem, doneChan,
                   errChan, result, tpc, uRet, uErrChan, viewportSem, ctx, vpc,
                   vErr, browserCtx, sessions, tErrChan, files, sent, faults>>

\* vpSem <- struct{}{}   (tile i is tiles[t][v][i + 1])
AcquireTile(t, v, i) ==
    /\ tiles[t][v][i + 1].pc = "acquire"
    /\ vpSem[t][v] < TilePoolSize
    /\ vpSem' = [vpSem EXCEPT ![t][v] = @ + 1]
    /\ tiles' = [tiles EXCEPT ![t][v][i + 1].pc = "scroll"]
    /\ UNCHANGED <<seg, pr, be, cf, out, full>>
    /\ UNCHANGED <<cfg, pageHeight, mainPc, launched, collected, sem, doneChan,
                   errChan, result, tpc, uRet, uErrChan, viewportSem, ctx, vpc,
                   vErr, browserCtx, sessions, tErrChan, files, sent, faults>>

\* errChan <- err; return   (with the deferred <-vpSem and wg.Done)
FailTile(t, v, i, cause) ==
    /\ Len(tErrChan[t][v]) < Len(tiles[t][v])
    /\ tErrChan' = [tErrChan EXCEPT ![t][v] = Append(@, Err("tile", t, v, i, cause))]
    /\ sent' = [sent EXCEPT !.tiles[t][v] = Append(@, Err("tile", t, v, i, cause))]
    /\ vpSem' = [vpSem EXCEPT ![t][v] = @ - 1]
    /\ tiles' = [tiles EXCEPT ![t][v][i + 1] = [pc |-> "done", buf |-> -1, metrics |-> NoMetrics]]

\* window.scrollTo({top: scrollPos}) on the viewport's session
ScrollTile(t, v, i) ==
    /\ tiles[t][v][i + 1].pc = "scroll"
    /\ LET s == browserCtx[t][v]
       IN  \/ /\ ctx[t].state = "live"
              /\ sessions' = [Use(s, t, v) EXCEPT
                                 ![s].scrollY = ScrollPos(i, pageHeight[t], Height(t, v))]
              /\ tiles' = [tiles EXCEPT ![t][v][i + 1].pc = "metrics"]
              /\ UNCHANGED <<tErrChan, vpSem, sent, faults>>
           \/ /\ ctx[t].state # "live"
              /\ sessions' = Use(s, t, v)
              /\ FailTile(t, v, i, "ctx")
              /\ UNCHANGED faults
    /\ UNCHANGED <<seg, pr, be, cf, out, full>>
    /\ UNCHANGED <<cfg, pageHeight, mainPc, launched, collected, sem, doneChan,
                   errChan, result, tpc, uRet, uErrChan, viewportSem, ctx, vpc,
                   vErr, browserCtx, files>>

\* a tile task that goes from its scroll to its capture at once
KeepMetrics(t, v, i) ==
    /\ tiles[t][v][i + 1].pc = "metrics"
    /\ LET s == browserCtx[t][v]
       IN  \/ /\ ctx[t].state = "live"
              /\ sessions' = Use(s, t, v)
              /\ tiles' = [tiles EXCEPT ![t][v][i + 1].pc = "capture"]
              /\ UNCHANGED <<tErrChan, vpSem, sent, faults>>
           \/ /\ ctx[t].state # "live"
              /\ sessions' = Use(s, t, v)
              /\ FailTile(t, v, i, "ctx")
              /\ UNCHANGED faults
    /\ UNCHANGED <<seg, pr, be, cf, out, full>>
    /\ UNCHANGED <<cfg, pageHeight, mainPc, launched, collected, sem, doneChan,
                   errChan, result, tpc, uRet, uErrChan, viewportSem, ctx, vpc,
                   vErr, browserCtx, files>>

\* the settle delay of 300 ms, then
\* emulation.SetDeviceMetricsOverride(viewport.Width, viewport.Height, 1, false)
SetTileMetrics(t, v, i) ==
    /\ tiles[t][v][i + 1].pc = "metrics"
    /\ LET s == browserCtx[t][v]
       IN  \/ /\ ctx[t].state = "live"
              /\ sessions' = [Use(s, t, v) EXCEPT ![s].metrics = TileMetrics(t, v)]
              /\ tiles' = [tiles EXCEPT ![t][v][i + 1].pc = "capture"]
              /\ UNCHANGED <<tErrChan, vpSem, sent, faults>>
           \/ /\ ctx[t].state # "live"
              /\ sessions' = Use(s, t, v)
              /\ FailTile(t, v, i, "ctx")
              /\ UNCHANGED faults
    /\ UNCHANGED <<seg, pr, be, cf, out, full>>
    /\ UNCHANGED <<cfg, pageHeight, mainPc, launched, collected, sem, doneChan,
                   errChan, result, tpc, uRet, uErrChan, viewportSem, ctx, vpc,
                   vErr, browserCtx, files>>

\* the delay of 800 ms and CaptureScreenshot(&buf): the image shows the page
\* at the session's current scroll offset, under its current device metrics
CaptureTile(t, v, i) ==
    /\ tiles[t][v][i + 1].pc = "capture"
    /\ LET s == browserCtx[t][v]
       IN  /\ sessions' = Use(s, t, v)
           /\ \/ /\ ctx[t].state = "live"
                 /\ tiles' = [tiles EXCEPT ![t][v][i + 1] =
                                 [pc |-> "write", buf |-> sessions[s].scrollY,
                                  metrics |-> sessions[s].metrics]]
                 /\ UNCHANGED <<tErrChan, vpSem, sent, faults>>
              \/ /\ CanFail(t)
                 /\ Charge(t)
                 /\ FailTile(t, v, i, Cause(t))
    /\ UNCHANGED <<seg, pr, be, cf, out, full>>
    /\ UNCHANGED <<cfg, pageHeight, mainPc, launched, collected, sem, doneChan,
                   errChan, result, tpc, uRet, uErrChan, viewportSem, ctx, vpc,
                   vErr, browserCtx, files>>

\* a tile task that names its file by the number of tiles persisted before it
WriteTileInOrder(t, v, i) ==
    /\ tiles[t][v][i + 1].pc = "write"
    /\ files' = files \cup
          {[kind |-> "tile", t |-> t, v |-> v,
            n |-> 1 + Cardinality({f \in files : f.kind = "tile" /\ f.t = t /\ f.v = v})]}
    /\ vpSem' = [vpSem EXCEPT ![t][v] = @ - 1]
    /\ tiles' = [tiles EXCEPT ![t][v][i + 1] = [pc |-> "done", buf |-> -1, metrics |-> NoMetrics]]
    /\ UNCHANGED <<seg, pr, be, cf, out, full>>
    /\ UNCHANGED <<cfg, pageHeight, mainPc, launched, collected, sem, doneChan,
                   errChan, result, tpc, uRet, uErrChan, viewportSem, ctx, vpc,
                   vErr, browserCtx, sessions, tErrChan, sent, faults>>

\* os.WriteFile(filepath, buf), then the deferred <-vpSem and wg.Done
WriteTile(t, v, i) ==
    /\ tiles[t][v][i + 1].pc = "write"
    /\ \/ /\ files' = files \cup {[kind |-> "tile", t |-> t, v |-> v,
                                   n |-> TileIndex(i)]}
          /\ vpSem' = [vpSem EXCEPT ![t][v] = @ - 1]
          /\ tiles' = [tiles EXCEPT ![t][v][i + 1] = [pc |-> "done", buf |-> -1, metrics |-> NoMetrics]]
          /\ UNCHANGED <<tErrChan, sent, faults>>
       \/ /\ Budget
          /\ faults' = faults + 1
          /\ FailTile(t, v, i, "fault")
          /\ UNCHANGED files
    /\ UNCHANGED <<seg, pr, be, cf, out, full>>
    /\ UNCHANGED <<cfg, pageHeight, mainPc, launched, collected, sem, doneChan,
                   errChan, result, tpc, uRet, uErrChan, viewportSem, ctx, vpc,
                   vErr, browserCtx, sessions>>

\* wg.Wait and the select on the tile stage's errChan
JoinTiles(t, v) ==
    /\ vpc[t][v] = "tilewait"
    /\ \A k \in 1..Len(tiles[t][v]) : tiles[t][v][k].pc = "done"
    /\ vErr' = [vErr EXCEPT ![t][v] = SelectErr(tErrChan[t][v])]
    /\ tErrChan' = [tErrChan EXCEPT ![t][v] = Drain(@)]
    /\ vpc' = [vpc EXCEPT ![t][v] = "teardown"]
    /\ UNCHANGED <<seg, pr, be, cf, out, full>>
    /\ UNCHANGED <<cfg, pageHeight, mainPc, launched, collected, sem, doneChan,
                   errChan, result, tpc, uRet, uErrChan, viewportSem, ctx,
                   browserCtx, sessions, tiles, vpSem, files, sent, faults>>

\* a return that cancels the browser context only when the captures succeeded
TeardownOnSuccess(t, v) ==
    /\ vpc[t][v] = "teardown"
    /\ sessions' = [sessions EXCEPT ![browserCtx[t][v]].state =
                       IF vErr[t][v] = NoErr THEN "closed" ELSE @]
    /\ vpc' = [vpc EXCEPT ![t][v] = "exit"]
    /\ UNCHANGED <<seg, pr, be, cf, out, full>>
    /\ UNCHANGED <<cfg, pageHeight, mainPc, launched, collected, sem, doneChan,
                   errChan, result, tpc, uRet, uErrChan, viewportSem, ctx, vErr,
                   browserCtx, tiles, tErrChan, vpSem, files, sent, faults>>

\* captureWithViewport returns: the deferred cancelBrowser and cancelAlloc
Teardown(t, v) ==
    /\ vpc[t][v] = "teardown"
    /\ sessions' = [sessions EXCEPT ![browserCtx[t][v]].state = "closed"]
    /\ vpc' = [vpc EXCEPT ![t][v] = "exit"]
    /\ UNCHANGED <<seg, pr, be, cf, out, full>>
    /\ UNCHANGED <<cfg, pageHeight, mainPc, launched, collected, sem, doneChan,
                   errChan, result, tpc, uRet, uErrChan, viewportSem, ctx, vErr,
                   browserCtx, tiles, tErrChan, vpSem, files, sent, faults>>

\* a viewport goroutine that cancels the target's context when it failed
ExitViewportCancelling(t, v) ==
    /\ vpc[t][v] = "exit"
    /\ IF vErr[t][v] # NoErr
       THEN /\ Len(uErrChan[t]) < NumViewports(t)
            /\ uErrChan' = [uErrChan EXCEPT ![t] = Append(@, vErr[t][v])]
            /\ sent' = [sent EXCEPT !.url[t] = Append(@, vErr[t][v])]
            /\ ctx' = [ctx EXCEPT ![t].state = IF @ = "live" THEN "cancelled" ELSE @]
       ELSE UNCHANGED <<uErrChan, sent, ctx>>
    /\ viewportSem' = [viewportSem EXCEPT ![t] = @ - 1]
    /\ vpc' = [vpc EXCEPT ![t][v] = "done"]
    /\ UNCHANGED <<seg, pr, be, cf, out, full>>
    /\ UNCHANGED <<cfg, pageHeight, mainPc, launched, collected, sem, doneChan,
                   errChan, result, tpc, uRet, vErr, browserCtx, sessions,
                   tiles, tErrChan, vpSem, files, faults>>

\* a viewport goroutine that starts over when captureWithViewport failed
ExitViewportRetry(t, v) ==
    /\ vpc[t][v] = "exit"
    /\ IF vErr[t][v] # NoErr
       THEN /\ vErr' = [vErr EXCEPT ![t][v] = NoErr]
            /\ vpc' = [vpc EXCEPT ![t][v] = "acquire"]
       ELSE /\ vpc' = [vpc EXCEPT ![t][v] = "done"]
            /\ UNCHANGED vErr
    /\ viewportSem' = [viewportSem EXCEPT ![t] = @ - 1]
    /\ UNCHANGED <<seg, pr, be, cf, out, full>>
    /\ UNCHANGED <<cfg, pageHeight, mainPc, launched, collected, sem, doneChan,
                   errChan, result, tpc, uRet, ctx, uErrChan, sent, browserCtx,
                   sessions, tiles, tErrChan, vpSem, files, faults>>

\* errChan <- err when the viewport failed; deferred <-viewportSem and wg.Done
ExitViewport(t, v) ==
    /\ vpc[t][v] = "exit"
    /\ IF vErr[t][v] # NoErr
       THEN /\ Len(uErrChan[t]) < NumViewports(t)
            /\ uErrChan' = [uErrChan EXCEPT ![t] = Append(@, vErr[t][v])]
            /\ sent' = [sent EXCEPT !.url[t] = Append(@, vErr[t][v])]
       ELSE UNCHANGED <<uErrChan, sent>>
    /\ viewportSem' = [viewportSem EXCEPT ![t] = @ - 1]
    /\ vpc' = [vpc EXCEPT ![t][v] = "done"]
    /\ UNCHANGED <<seg, pr, be, cf, out, full>>
    /\ UNCHANGED <<cfg, pageHeight, mainPc, launched, collected, sem, doneChan,
                   errChan, result, tpc, uRet, ctx, vErr, browserCtx, sessions,
                   tiles, tErrChan, vpSem, files, faults>>

TileIds(t, v) == {k - 1 : k \in 1..Len(tiles[t][v])}

Next ==
    \/ Launch
    \/ Collect
    \/ Return
    \/ \E t \in T : CaptureURLStart(t)
    \/ \E t \in T : Deadline(t)
    \/ \E t \in T : CaptureURLReturn(t)
    \/ \E t \in T : Release(t)
    \/ \E t \in T : Signal(t)
    \/ \E t \in T, v \in V : AcquireViewport(t, v)
    \/ \E t \in T, v \in V : CaptureWithViewport(t, v)
    \/ \E t \in T, v \in V : \E i \in TileIds(t, v) : AcquireTile(t, v, i)
    \/ \E t \in T, v \in V : \E i \in TileIds(t, v) : ScrollTile(t, v, i)
    \/ \E t \in T, v \in V : \E i \in TileIds(t, v) : SetTileMetrics(t, v, i)
    \/ \E t \in T, v \in V : \E i \in TileIds(t, v) : CaptureTile(t, v, i)
    \/ \E t \in T, v \in V : \E i \in TileIds(t, v) : WriteTile(t, v, i)
    \/ \E t \in T, v \in V : JoinTiles(t, v)
    \/ \E t \in T, v \in V : Teardown(t, v)
    \/ \E t \in T, v \in V : ExitViewport(t, v)

Spec == Init /\ [][Next]_vars

\* the Go scheduler runs every goroutine that can take a step: a run does not
\* stop while a step that needs no failure and no deadline is possible
SpecFair == Spec /\ WF_vars(Next /\ faults' = faults)

(***************************************************************************)
(* The tile stage of one viewport taken alone: the count and the offsets   *)
(* captureViewportScreenshots computes from the page height it measured    *)
(* and the viewport height, over a wide range of heights.  The tile        *)
(* goroutines are started in index order; a shot records the file index    *)
(* and the offset its goroutine computes.                                  *)
(***************************************************************************)
MaxSegPageHeight == 40
MaxSegViewportHeight == 12
SegPageHeights == (0..MaxSegPageHeight) \cup {250, 1000}
SegViewportHeights == (1..MaxSegViewportHeight) \cup {300}

\* a run with nothing to capture: the orchestration stays where it starts
Idle ==
    /\ cfg = [Concurrency |-> 1, URLs |-> <<[Viewports |-> <<>>]>>, ViewProof |-> FALSE]
    /\ pageHeight = <<0>>
    /\ Fresh

InitSeg ==
    /\ Idle
    /\ pr = NoPr
    /\ be = NoBe
    /\ cf = NoCf
    /\ out = NoOut
    /\ full = NoFull
    /\ \E ph \in SegPageHeights, vh \in SegViewportHeights :
          seg = [pc |-> "measure", pageHeight |-> ph, viewportHeight |-> vh,
                 viewportCount |-> 0, started |-> 0, shots |-> <<>>]

\* viewportCount := int(math.Ceil(pageHeight / viewportHeight)), at least 1;
\* the branch on pageHeight <= viewportHeight || viewportCount == 1
SegMeasure ==
    /\ seg.pc = "measure"
    /\ seg' = [seg EXCEPT
                 !.viewportCount = ViewportCount(seg.pageHeight, seg.viewportHeight),
                 !.pc = IF SinglePath(seg.pageHeight, seg.viewportHeight)
                        THEN "single" ELSE "tiles"]
    /\ UNCHANGED <<run, pr, be, cf, out, full>>

\* the single capture: window.scrollTo(0, 0), file index 1, no goroutine
SegSingle ==
    /\ seg.pc = "single"
    /\ seg' = [seg EXCEPT !.shots = <<[n |-> 1, at |-> 0]>>, !.pc = "done"]
    /\ UNCHANGED <<run, pr, be, cf, out, full>>

\* the loop body for i = seg.started: the goroutine of tile i
SegTile ==
    /\ seg.pc = "tiles"
    /\ seg.started < seg.viewportCount
    /\ LET i == seg.started
       IN  seg' = [seg EXCEPT
                     !.started = i + 1,
                     !.shots = Append(@, [n |-> TileIndex(i),
                                          at |-> ScrollPos(i, seg.pageHeight,
                                                           seg.viewportHeight)])]
    /\ UNCHANGED <<run, pr, be, cf, out, full>>

\* wg.Wait() once every tile goroutine was started
SegJoin ==
    /\ seg.pc = "tiles"
    /\ seg.started = seg.viewportCount
    /\ seg' = [seg EXCEPT !.pc = "done"]
    /\ UNCHANGED <<run, pr, be, cf, out, full>>

NextSeg == SegMeasure \/ SegSingle \/ SegTile \/ SegJoin

SpecSeg == InitSeg /\ [][NextSeg]_vars

(***************************************************************************)
(* The stages of one session taken alone (captureWithViewport: the proof   *)
(* stage when ViewProof is configured, the full page stage, the tile       *)
(* stage).  Every stage navigates, records the cookies ("before"), primes  *)
(* the page when cookies or local-storage entries are configured           *)
(* (setCookiesAndLocalStorage, which ends with the "after" record),        *)
(* reloads once more and captures.  The page is passive: it sets no cookie *)
(* and no local-storage entry of its own; the browser may hold a cookie of *)
(* another site from the start.                                            *)
(***************************************************************************)
MaxCookies == 2
MaxLocalStorage == 2

\* extractDomainFromURL(urlConfig.URL) of the target
TargetDomain == "ah"

Cookie == [Name : {"a", "b"}, Value : {"1", "2"}, Domain : {"", "ah"}, Path : {""}]
LocalStorageItem == [Key : {"k"}, Value : {"1", "2"}]

RECURSIVE ListsUpTo(_, _)
ListsUpTo(S, n) ==
    IF n = 0 THEN {<<>>}
    ELSE LET shorter == ListsUpTo(S, n - 1)
         IN  shorter \cup {Append(l, x) : l \in {m \in shorter : Len(m) = n - 1}, x \in S}

\* the stages of captureWithViewport, by the screenshotType they log under
StageTypes(proof) ==
    IF proof THEN <<"full-proof", "full page", "viewport">>
             ELSE <<"full page", "viewport">>
BeforeStage(type) == IF type = "viewport" THEN "before-viewport" ELSE "before"
AfterStage(type) == IF type = "viewport" THEN "after-viewport" ELSE "after"

\* key := cookie.Name + cookie.Path + cookie.Domain
CookieKey(name, path, domain) == name \o path \o domain

\* the domain and path given to network.SetCookie for a configured cookie
DomainOf(cookie) == IF cookie.Domain = "" THEN TargetDomain ELSE cookie.Domain
PathOf(cookie) == IF cookie.Path = "" THEN "/" ELSE cookie.Path

\* the domain the browser answers for a cookie set with a domain: as given,
\* or with a leading dot (which of the two is the browser's choice)
StoredDomain(domain, dotted) == IF dotted THEN "." \o domain ELSE domain

\* network.SetCookie on the jar: one cookie per (name, path, domain)
SetCookie(jar, name, value, domain, path) ==
    {c \in jar : ~(c.Name = name /\ c.Path = path /\ c.Domain = domain)}
        \cup {[Name |-> name, Value |-> value, Domain |-> domain, Path |-> path]}

\* existingCookieMap built from storage.GetCookies(): of the cookies with one
\* key the map keeps the value of the one the browser lists last, whichever
\* that is
ExistingCookieMap(jar) ==
    LET keys == {CookieKey(c.Name, c.Path, c.Domain) : c \in jar}
    IN  {map \in [keys -> {c.Value : c \in jar}] :
            \A key \in keys :
                \E c \in jar : /\ CookieKey(c.Name, c.Path, c.Domain) = key
                                /\ c.Value = map[key]}

\* localStorage.getItem / setItem on the entries of the origin
GetItem(storage, key) ==
    IF \E e \in storage : e.Key = key
    THEN (CHOOSE e \in storage : e.Key = key).Value
    ELSE "null"
SetItem(storage, key, value) ==
    {e \in storage : e.Key # key} \cup {[Key |-> key, Value |-> value]}

\* the cookies of a set in the order storage.GetCookies() hands them over
RECURSIVE InOrder(_)
InOrder(S) ==
    IF S = {} THEN <<>>
    ELSE LET c == CHOOSE x \in S : TRUE IN <<c>> \o InOrder(S \ {c})

\* SaveCookiesToFile: one section appended to the text log, then one row per
\* cookie appended to the CSV; csvFails: the CSV could not be opened
SaveCookiesToFile(p, stage, type, csvFails) ==
    LET cookies == InOrder(p.jar)
    IN  [p EXCEPT
           !.text = Append(@, [stage |-> stage, type |-> type, cookies |-> p.jar]),
           !.csv = IF csvFails THEN @
                   ELSE @ \o [k \in 1..Len(cookies) |->
                                 [stage |-> stage, type |-> type, cookie |-> cookies[k]]]]

PrType == StageTypes(pr.ViewProof)[pr.stage]

InitPrime ==
    /\ Idle
    /\ seg = NoSeg
    /\ be = NoBe
    /\ cf = NoCf
    /\ out = NoOut
    /\ full = NoFull
    /\ \E cookies \in ListsUpTo(Cookie, MaxCookies),
          items \in ListsUpTo(LocalStorageItem, MaxLocalStorage),
          defaults \in SUBSET {"a"}, proof \in BOOLEAN, dotted \in BOOLEAN,
          \* a cookie the browser may hold from the start: one of another site,
          \* left by a resource the page embeds (GetCookies returns every cookie)
          foreign \in SUBSET {[Name |-> "a", Value |-> "1", Domain |-> "h", Path |-> "/a"]} :
          pr = [pc |-> "navigate", stage |-> 1,
                Cookies |-> cookies, LocalStorage |-> items,
                DefaultCookies |-> defaults, ViewProof |-> proof, dotted |-> dotted,
                jar |-> foreign, storage |-> {},
                existingCookieMap |-> <<>>,
                i |-> 0, defaultCookiesApplied |-> FALSE, needsRefresh |-> FALSE,
                cookiesChanged |-> FALSE, storageChanged |-> FALSE, reloads |-> 0,
                jar0 |-> {}, storage0 |-> {},
                text |-> <<>>, csv |-> <<>>, primed |-> <<>>,
                shots |-> <<>>, err |-> "nil"]

\* the test of the cookie loop: the cookie exists with the same value
PrKnown(cookie) ==
    LET key == CookieKey(cookie.Name, PathOf(cookie), DomainOf(cookie))
    IN  key \in DOMAIN pr.existingCookieMap /\ pr.existingCookieMap[key] = cookie.Value

\* the step the stage is at issues an operation on the browser or on a file
PrOperates ==
    \/ pr.pc \in {"navigate", "before", "after", "reload", "capture"}
    \/ pr.pc = "prime" /\ Len(pr.Cookies) > 0
    \/ pr.pc = "cookie" /\ pr.i <= Len(pr.Cookies) /\ ~PrKnown(pr.Cookies[pr.i])
    \/ pr.pc = "storage" /\ pr.i <= Len(pr.LocalStorage)
    \/ pr.pc = "refresh" /\ (pr.needsRefresh \/ pr.defaultCookiesApplied)

\* a priming that logs the failure of a cookie or storage operation and goes
\* on to its reload and its "after" record
PrFailLogged ==
    /\ PrOperates
    /\ pr' = [pr EXCEPT !.err = pr.pc,
                        !.pc = IF pr.pc \in {"prime", "cookie", "storage"}
                               THEN "refresh" ELSE "failed"]
    /\ UNCHANGED <<run, seg, be, cf, out, full>>

\* a captureWithViewport that goes on to its next stage when a stage failed
PrFailContinue ==
    /\ PrOperates
    /\ pr' = IF pr.stage < Len(StageTypes(pr.ViewProof))
             THEN [pr EXCEPT !.stage = @ + 1, !.pc = "navigate"]
             ELSE [pr EXCEPT !.pc = "failed", !.err = pr.pc]
    /\ UNCHANGED <<run, seg, be, cf, out, full>>

\* a priming that undoes its writes when one of its operations fails
PrFailRollback ==
    /\ PrOperates
    /\ pr' = [pr EXCEPT !.pc = "failed", !.err = pr.pc,
                        !.jar = IF pr.pc \in {"cookie", "storage"} THEN pr.jar0 ELSE @,
                        !.storage = IF pr.pc \in {"cookie", "storage"} THEN pr.storage0 ELSE @]
    /\ UNCHANGED <<run, seg, be, cf, out, full>>

\* that operation fails: the stage, and with it captureWithViewport, returns
PrFail ==
    /\ PrOperates
    /\ pr' = [pr EXCEPT !.pc = "failed", !.err = pr.pc]
    /\ UNCHANGED <<run, seg, be, cf, out, full>>

\* chromedp.Navigate(urlConfig.URL)
PrNavigate ==
    /\ pr.pc = "navigate"
    /\ pr' = [pr EXCEPT !.pc = "before"]
    /\ UNCHANGED <<run, seg, be, cf, out, full>>

\* SaveCookiesToFile(..., "before" / "before-viewport", ...), then the test
\* len(urlConfig.Cookies) > 0 || len(urlConfig.LocalStorage) > 0
PrSaveBefore ==
    /\ pr.pc = "before"
    /\ \E csvFails \in BOOLEAN :
          pr' = [SaveCookiesToFile(pr, BeforeStage(PrType), PrType, csvFails) EXCEPT
                   !.err = IF csvFails THEN "before" ELSE @,
                   !.pc = IF csvFails THEN "failed"
                          ELSE IF Len(pr.Cookies) > 0 \/ Len(pr.LocalStorage) > 0
                               THEN "prime" ELSE "capture"]
    /\ UNCHANGED <<run, seg, be, cf, out, full>>

\* setCookiesAndLocalStorage up to its cookie loop: defaultCookiesApplied,
\* storage.GetCookies(), existingCookieMap
PrStartPriming ==
    /\ pr.pc = "prime"
    /\ \E map \in ExistingCookieMap(pr.jar) :
       pr' = [pr EXCEPT
                !.defaultCookiesApplied =
                    \E k \in 1..Len(pr.Cookies) : pr.Cookies[k].Name \in pr.DefaultCookies,
                !.needsRefresh = FALSE,
                !.cookiesChanged = FALSE,
                !.storageChanged = FALSE,
                !.reloads = 0,
                !.jar0 = pr.jar,
                !.storage0 = pr.storage,
                !.existingCookieMap =
                    IF Len(pr.Cookies) > 0 THEN map ELSE @,
                !.i = 1,
                !.pc = IF Len(pr.Cookies) > 0 THEN "cookie" ELSE "storage"]
    /\ UNCHANGED <<run, seg, be, cf, out, full>>

\* one pass of the loop over urlConfig.Cookies
PrSetCookie ==
    /\ pr.pc = "cookie"
    /\ pr.i <= Len(pr.Cookies)
    /\ LET cookie == pr.Cookies[pr.i]
       IN  IF PrKnown(cookie)
           THEN pr' = [pr EXCEPT !.i = @ + 1]
           ELSE pr' = [pr EXCEPT
                         !.jar = SetCookie(@, cookie.Name, cookie.Value,
                                           StoredDomain(DomainOf(cookie), pr.dotted),
                                           PathOf(cookie)),
                         !.cookiesChanged = TRUE,
                         !.i = @ + 1]
    /\ UNCHANGED <<run, seg, be, cf, out, full>>

\* after the cookie loop: if cookiesChanged { needsRefresh = true }
PrCookiesDone ==
    /\ pr.pc = "cookie"
    /\ pr.i > Len(pr.Cookies)
    /\ pr' = [pr EXCEPT !.needsRefresh = pr.cookiesChanged, !.i = 1, !.pc = "storage"]
    /\ UNCHANGED <<run, seg, be, cf, out, full>>

\* a pass that sets the item without looking at the value the page holds
PrSetStorageAlways ==
    /\ pr.pc = "storage"
    /\ pr.i <= Len(pr.LocalStorage)
    /\ LET item == pr.LocalStorage[pr.i]
       IN  pr' = [pr EXCEPT
                    !.storage = SetItem(@, item.Key, item.Value),
                    !.storageChanged = TRUE,
                    !.i = @ + 1]
    /\ UNCHANGED <<run, seg, be, cf, out, full>>

\* one pass of the loop over urlConfig.LocalStorage: the script compares
\* localStorage.getItem(key) with the value and sets the item when they differ
PrSetStorage ==
    /\ pr.pc = "storage"
    /\ pr.i <= Len(pr.LocalStorage)
    /\ LET item == pr.LocalStorage[pr.i]
           changed == GetItem(pr.storage, item.Key) # item.Value
       IN  pr' = [pr EXCEPT
                    !.storage = IF changed THEN SetItem(@, item.Key, item.Value) ELSE @,
                    !.storageChanged = @ \/ changed,
                    !.i = @ + 1]
    /\ UNCHANGED <<run, seg, be, cf, out, full>>

\* after the storage loop: if storageChanged { needsRefresh = true }
PrStorageDone ==
    /\ pr.pc = "storage"
    /\ pr.i > Len(pr.LocalStorage)
    /\ pr' = [pr EXCEPT !.needsRefresh = @ \/ pr.storageChanged, !.pc = "refresh"]
    /\ UNCHANGED <<run, seg, be, cf, out, full>>

\* if needsRefresh || defaultCookiesApplied: Reload, and a second Reload when
\* defaultCookiesApplied
PrRefresh ==
    /\ pr.pc = "refresh"
    /\ pr' = [pr EXCEPT
                !.reloads = IF pr.needsRefresh \/ pr.defaultCookiesApplied
                            THEN IF pr.defaultCookiesApplied THEN 2 ELSE 1
                            ELSE 0,
                !.pc = "after"]
    /\ UNCHANGED <<run, seg, be, cf, out, full>>

\* a priming that records "after" only when it marked something as changed
PrSaveAfterIfChanged ==
    /\ pr.pc = "after"
    /\ pr' = [(IF pr.needsRefresh
               THEN SaveCookiesToFile(pr, AfterStage(PrType), PrType, FALSE)
               ELSE pr) EXCEPT
                !.primed = Append(@, [type |-> PrType,
                                      changed |-> pr.needsRefresh,
                                      altered |-> pr.jar # pr.jar0
                                                    \/ pr.storage # pr.storage0,
                                      reloads |-> pr.reloads]),
                !.pc = "reload"]
    /\ UNCHANGED <<run, seg, be, cf, out, full>>

\* an "after" record taken from the cookies read before the cookie loop
PrSaveAfterStale ==
    /\ pr.pc = "after"
    /\ pr' = [pr EXCEPT
                !.text = Append(@, [stage |-> AfterStage(PrType), type |-> PrType,
                                    cookies |-> pr.jar0]),
                !.primed = Append(@, [type |-> PrType,
                                      changed |-> pr.needsRefresh,
                                      altered |-> pr.jar # pr.jar0
                                                    \/ pr.storage # pr.storage0,
                                      reloads |-> pr.reloads]),
                !.pc = "reload"]
    /\ UNCHANGED <<run, seg, be, cf, out, full>>

\* the last statement of setCookiesAndLocalStorage:
\* return SaveCookiesToFile(ctx, urlConfig, stage, ...).Do(ctx)
PrSaveAfter ==
    /\ pr.pc = "after"
    /\ \E csvFails \in BOOLEAN :
          pr' = [SaveCookiesToFile(pr, AfterStage(PrType), PrType, csvFails) EXCEPT
                   !.primed = IF csvFails THEN @
                              ELSE Append(@, [type |-> PrType,
                                              changed |-> pr.needsRefresh,
                                              altered |-> pr.jar # pr.jar0
                                                            \/ pr.storage # pr.storage0,
                                              reloads |-> pr.reloads]),
                   !.err = IF csvFails THEN "after" ELSE @,
                   !.pc = IF csvFails THEN "failed" ELSE "reload"]
    /\ UNCHANGED <<run, seg, be, cf, out, full>>

\* the stage's additional chromedp.Reload() after the priming
PrReload ==
    /\ pr.pc = "reload"
    /\ pr' = [pr EXCEPT !.pc = "capture"]
    /\ UNCHANGED <<run, seg, be, cf, out, full>>

\* the rest of the stage, with its screenshot (shots: the type of the stage
\* and the number of audit records written by then); captureWithViewport
\* goes on to its next stage
PrCapture ==
    /\ pr.pc = "capture"
    /\ LET shot == [type |-> PrType, records |-> Len(pr.text)]
       IN  pr' = IF pr.stage < Len(StageTypes(pr.ViewProof))
                 THEN [pr EXCEPT !.shots = Append(@, shot),
                                 !.stage = @ + 1, !.pc = "navigate"]
                 ELSE [pr EXCEPT !.shots = Append(@, shot), !.pc = "done"]
    /\ UNCHANGED <<run, seg, be, cf, out, full>>

NextPrime ==
    \/ PrFail
    \/ PrNavigate
    \/ PrSaveBefore
    \/ PrStartPriming
    \/ PrSetCookie
    \/ PrCookiesDone
    \/ PrSetStorage
    \/ PrStorageDone
    \/ PrRefresh
    \/ PrSaveAfter
    \/ PrReload
    \/ PrCapture

SpecPrime == InitPrime /\ [][NextPrime]_vars

(***************************************************************************)
(* The process and its browser backends taken alone: main with its signal  *)
(* handler and cleanupDockerContainer, and the backend resolution of       *)
(* captureWithViewport (findChromeExecutable, startDockerChrome,           *)
(* checkChromeResponseFromContainer) run by the viewport tasks of the      *)
(* process concurrently.  The container named chrome is shared by every    *)
(* task and outlives the process unless it is stopped.  An instance        *)
(* answers the liveness check while it is "healthy"; a started instance    *)
(* boots for a while, and an instance may stop answering.                  *)
(***************************************************************************)
MaxWorkers == 2
\* the polls of checkChromeResponseFromContainer(5) and (20), scaled down
ReusePolls == 2
FreshPolls == 3
\* baseDelay := 1 * time.Second, in ms
baseDelay == 1000

W == 1..MaxWorkers
ChromeModes == {"local", "docker", "auto"}
NoContainer == [state |-> "absent", by |-> "none", starter |-> 0, verified |-> FALSE]

InitBackend ==
    /\ Idle
    /\ seg = NoSeg
    /\ pr = NoPr
    /\ cf = NoCf
    /\ out = NoOut
    /\ full = NoFull
    /\ \E mode \in ChromeModes, found \in BOOLEAN, docker \in BOOLEAN,
          before \in {"absent", "booting", "healthy", "hung"} :
          be = [pc |-> "capture", ChromeMode |-> mode,
                localFound |-> found, dockerInstalled |-> docker,
                container |-> IF docker /\ before # "absent"
                              THEN [state |-> before, by |-> "other", starter |-> 0,
                                    verified |-> FALSE]
                              ELSE NoContainer,
                cancelled |-> FALSE, handler |-> "idle", exitCode |-> -1,
                removedVerified |-> FALSE, stoppedOther |-> FALSE,
                task |-> [i \in W |->
                            [pc |-> "start", tried |-> <<>>, polls |-> 0,
                             probes |-> 0, waits |-> <<>>,
                             fresh |-> FALSE, checked |-> FALSE,
                             backend |-> "none", session |-> FALSE,
                             conflict |-> FALSE, logs |-> -1,
                             err |-> "nil"]]]

\* the process has not exited
Alive == be.pc # "off" /\ be.exitCode = -1

\* the container once it is removed (docker rm -f, docker stop)
Removed(b) == [b EXCEPT !.container = NoContainer]

\* docker rm -f chrome in startDockerChrome: it removes whatever instance the
\* container is by then, also one that answers and that a call has verified
RemovedByResolver(b) ==
    [Removed(b) EXCEPT !.removedVerified =
                          @ \/ (b.container.state = "healthy" /\ b.container.verified)]

\* an error of startDockerChrome that fails the viewport in every mode
DockerFailedNoFallback(b, i) ==
    [b EXCEPT !.task[i].err = "resolve", !.task[i].pc = "done"]

\* startDockerChrome returned an error to task i: in docker mode the viewport
\* fails, in auto mode it falls back to the default allocator
DockerFailed(b, i) ==
    IF b.ChromeMode = "docker"
    THEN [b EXCEPT !.task[i].err = "resolve", !.task[i].pc = "done"]
    ELSE [b EXCEPT !.task[i].tried = Append(@, "fallback"),
                   !.task[i].backend = "fallback",
                   !.task[i].pc = "session"]

\* a resolution that takes every mode but docker through the chain of auto
ResolveAlwaysChained(i) ==
    /\ Alive
    /\ be.task[i].pc = "start"
    /\ be' = IF be.ChromeMode = "docker"
             THEN [be EXCEPT !.task[i].tried = <<"remote">>, !.task[i].pc = "docker"]
             ELSE IF be.localFound
             THEN [be EXCEPT !.task[i].tried = <<"local">>,
                             !.task[i].backend = "local",
                             !.task[i].pc = "session"]
             ELSE [be EXCEPT !.task[i].tried = <<"local", "remote">>,
                             !.task[i].pc = "docker"]
    /\ UNCHANGED <<run, seg, pr, cf, out, full>>

\* the switch on s.Config.ChromeMode, with findChromeExecutable where it is called
Resolve(i) ==
    /\ Alive
    /\ be.task[i].pc = "start"
    /\ be' = IF be.ChromeMode = "docker"
             THEN [be EXCEPT !.task[i].tried = <<"remote">>, !.task[i].pc = "docker"]
             ELSE IF be.localFound
             THEN [be EXCEPT !.task[i].tried = <<"local">>,
                             !.task[i].backend = "local",
                             !.task[i].pc = "session"]
             ELSE IF be.ChromeMode = "local"
             THEN [be EXCEPT !.task[i].tried = <<"local">>,
                             !.task[i].err = "resolve",
                             !.task[i].pc = "done"]
             ELSE [be EXCEPT !.task[i].tried = <<"local", "remote">>,
                             !.task[i].pc = "docker"]
    /\ UNCHANGED <<run, seg, pr, cf, out, full>>

\* startDockerChrome up to its first branch: exec.LookPath("docker"),
\* docker ps -q -f name=chrome -f status=running
DockerPs(i) ==
    /\ Alive
    /\ be.task[i].pc = "docker"
    /\ \/ /\ ~be.dockerInstalled
          /\ be' = DockerFailed(be, i)
       \/ /\ be.dockerInstalled            \* docker ps fails
          /\ be' = DockerFailed(be, i)
       \/ /\ be.dockerInstalled
          /\ be' = IF be.container.state # "absent"
                   THEN [be EXCEPT !.task[i].polls = ReusePolls,
                                   !.task[i].probes = 0,
                                   !.task[i].waits = <<>>,
                                   !.task[i].fresh = FALSE,
                                   !.task[i].pc = "poll"]
                   ELSE [be EXCEPT !.task[i].pc = "run"]
    /\ UNCHANGED <<run, seg, pr, cf, out, full>>

\* a pause of the same length after every failed attempt
delayFlat(i) == baseDelay

\* delay := baseDelay + time.Duration(i*150)*time.Millisecond, in ms
delay(i) == baseDelay + i * 150

\* one pass of the loop of checkChromeResponseFromContainer (pass number
\* probes, from 0): the instance answers, or the pass ends with the sleep and
\* the loop goes on or times out
Poll(i) ==
    /\ Alive
    /\ be.task[i].pc = "poll"
    /\ be' = IF be.container.state = "healthy"
             THEN [be EXCEPT !.container.verified = TRUE,
                             !.task[i].probes = @ + 1,
                             !.task[i].checked = TRUE,
                             !.task[i].backend = "remote",
                             !.task[i].pc = "session"]
             ELSE IF be.task[i].polls > 1
             THEN [be EXCEPT !.task[i].polls = @ - 1,
                             !.task[i].probes = @ + 1,
                             !.task[i].waits = Append(@, delay(be.task[i].probes))]
             ELSE [be EXCEPT !.task[i].polls = 0,
                             !.task[i].probes = @ + 1,
                             !.task[i].waits = Append(@, delay(be.task[i].probes)),
                             !.task[i].pc = IF be.task[i].fresh THEN "giveup" ELSE "stale"]
    /\ UNCHANGED <<run, seg, pr, cf, out, full>>

\* a stale container that is left in place before the new one is started
RemoveStaleKept(i) ==
    /\ Alive
    /\ be.task[i].pc = "stale"
    /\ be' = [be EXCEPT !.task[i].pc = "run"]
    /\ UNCHANGED <<run, seg, pr, cf, out, full>>

\* the running container did not answer: docker rm -f chrome, errors ignored
RemoveStale(i) ==
    /\ Alive
    /\ be.task[i].pc = "stale"
    /\ be' = [RemovedByResolver(be) EXCEPT !.task[i].pc = "run"]
    /\ UNCHANGED <<run, seg, pr, cf, out, full>>

\* docker run -d --rm --name chrome ...: fails when the name is taken
DockerRun(i) ==
    /\ Alive
    /\ be.task[i].pc = "run"
    /\ be' = IF be.container.state # "absent"
             THEN [DockerFailed(be, i) EXCEPT !.task[i].conflict = TRUE]
             ELSE [be EXCEPT !.container = [state |-> "booting", by |-> "run",
                                            starter |-> i, verified |-> FALSE],
                             !.task[i].polls = FreshPolls,
                             !.task[i].probes = 0,
                             !.task[i].waits = <<>>,
                             !.task[i].fresh = TRUE,
                             !.task[i].pc = "poll"]
    /\ UNCHANGED <<run, seg, pr, cf, out, full>>

\* the started container did not answer and was not removed
GiveUpLeaving(i) ==
    /\ Alive
    /\ be.task[i].pc = "giveup"
    /\ be' = [DockerFailed(be, i) EXCEPT !.task[i].logs = be.container.starter]
    /\ UNCHANGED <<run, seg, pr, cf, out, full>>

\* the started container did not answer: docker logs chrome (the output of
\* the container named chrome by then, kept as the task that started it; 0:
\* there is none and the output is docker's message), docker rm -f chrome,
\* and the error with the logs
GiveUp(i) ==
    /\ Alive
    /\ be.task[i].pc = "giveup"
    /\ be' = [DockerFailed(RemovedByResolver(be), i)
                 EXCEPT !.task[i].logs = be.container.starter]
    /\ UNCHANGED <<run, seg, pr, cf, out, full>>

\* chromedp.NewContext and the captures on it: they fail when the context is
\* cancelled or the remote instance is gone, and may fail on their own
\* a browser operation that does not see the cancellation of its context
SessionUncancelled(i) ==
    /\ Alive
    /\ be.task[i].pc = "session"
    /\ \E ok \in BOOLEAN :
          /\ ok /\ be.task[i].backend = "remote" => be.container.state = "healthy"
          /\ be' = [be EXCEPT !.task[i].session = TRUE,
                              !.task[i].err = IF ok THEN "nil" ELSE "capture",
                              !.task[i].pc = "done"]
    /\ UNCHANGED <<run, seg, pr, cf, out, full>>

Session(i) ==
    /\ Alive
    /\ be.task[i].pc = "session"
    /\ \E ok \in BOOLEAN :
          /\ ok => ~be.cancelled
          /\ ok /\ be.task[i].backend = "remote" => be.container.state = "healthy"
          /\ be' = [be EXCEPT !.task[i].session = TRUE,
                              !.task[i].err = IF ok THEN "nil" ELSE "capture",
                              !.task[i].pc = "done"]
    /\ UNCHANGED <<run, seg, pr, cf, out, full>>

\* the container's instance starts to answer, or stops answering
Boot ==
    /\ be.pc # "off"
    /\ be.container.state = "booting"
    /\ be' = [be EXCEPT !.container.state = "healthy"]
    /\ UNCHANGED <<run, seg, pr, cf, out, full>>
Hang ==
    /\ be.pc # "off"
    /\ be.container.state \in {"booting", "healthy"}
    /\ be' = [be EXCEPT !.container.state = "hung"]
    /\ UNCHANGED <<run, seg, pr, cf, out, full>>

\* cleanupDockerContainer: when a container named chrome is running,
\* docker stop chrome
cleanupDockerContainer(b) ==
    IF b.dockerInstalled /\ b.container.state # "absent"
    THEN [Removed(b) EXCEPT !.stoppedOther = @ \/ b.container.by = "other"]
    ELSE b

\* main: CaptureURLs returned (every task is over)
MainReturned ==
    /\ Alive
    /\ be.pc = "capture"
    /\ \A i \in W : be.task[i].pc = "done"
    /\ be' = [be EXCEPT !.pc = "cleanup"]
    /\ UNCHANGED <<run, seg, pr, cf, out, full>>

\* main: cleanupDockerContainer() on either branch
MainCleanup ==
    /\ Alive
    /\ be.pc = "cleanup"
    /\ be' = [cleanupDockerContainer(be) EXCEPT !.pc = "exit"]
    /\ UNCHANGED <<run, seg, pr, cf, out, full>>

\* main: os.Exit(1) when CaptureURLs returned an error, else the return of main
MainExit ==
    /\ Alive
    /\ be.pc = "exit"
    /\ be' = [be EXCEPT !.exitCode = IF \E i \in W : be.task[i].err # "nil"
                                     THEN 1 ELSE 0]
    /\ UNCHANGED <<run, seg, pr, cf, out, full>>

\* the signal handler: sig := <-signalChan, cancel()
Interrupt ==
    /\ Alive
    /\ be.handler = "idle"
    /\ be' = [be EXCEPT !.handler = "cleanup", !.cancelled = TRUE]
    /\ UNCHANGED <<run, seg, pr, cf, out, full>>

\* the signal handler: cleanupDockerContainer()
HandlerCleanup ==
    /\ Alive
    /\ be.handler = "cleanup"
    /\ be' = [cleanupDockerContainer(be) EXCEPT !.handler = "sleep"]
    /\ UNCHANGED <<run, seg, pr, cf, out, full>>

\* the signal handler: time.Sleep(5 * time.Second), os.Exit(1)
HandlerExit ==
    /\ Alive
    /\ be.handler = "sleep"
    /\ be' = [be EXCEPT !.handler = "exited", !.exitCode = 1]
    /\ UNCHANGED <<run, seg, pr, cf, out, full>>

NextBackend ==
    \/ \E i \in W : Resolve(i)
    \/ \E i \in W : DockerPs(i)
    \/ \E i \in W : Poll(i)
    \/ \E i \in W : RemoveStale(i)
    \/ \E i \in W : DockerRun(i)
    \/ \E i \in W : GiveUp(i)
    \/ \E i \in W : Session(i)
    \/ Boot
    \/ Hang
    \/ MainReturned
    \/ MainCleanup
    \/ MainExit
    \/ Interrupt
    \/ HandlerCleanup
    \/ HandlerExit

SpecBackend == InitBackend /\ [][NextBackend]_vars

\* the signal handler is a goroutine of straight-line code: once it received
\* the signal, its cleanup and its sleep end and it calls os.Exit
SpecBackendFair ==
    SpecBackend /\ WF_vars(HandlerCleanup) /\ WF_vars(HandlerExit)

(***************************************************************************)
(* The configuration taken alone: validateConfig fills in, for each URL in *)
(* turn, the cookies and the local storage it will be primed with.  What   *)
(* setCookiesAndLocalStorage later iterates over is the URL's Cookies as   *)
(* this function leaves them.  The fields that play no part in that (names,*)
(* viewports, delay, format, quality, concurrency) are left out.           *)
(***************************************************************************)
MaxProfiles == 2
MaxConfigURLs == 2

\* configured cookies and items; the value tells where the entry was written:
\* "1" in the URL's own list, "2" in a profile, "3" in the defaults
ConfigCookie(name, value) == [Name |-> name, Value |-> value, Domain |-> "", Path |-> ""]
ConfigItem(value) == [Key |-> "k", Value |-> value]

CookieProfile ==
    {[Name |-> "p", Cookies |-> <<>>, LocalStorage |-> <<ConfigItem("2")>>],
     [Name |-> "p", Cookies |-> <<ConfigCookie("a", "2")>>, LocalStorage |-> <<>>],
     [Name |-> "p", Cookies |-> <<ConfigCookie("b", "2")>>, LocalStorage |-> <<ConfigItem("2")>>],
     [Name |-> "", Cookies |-> <<>>, LocalStorage |-> <<>>]}

ConfigURL ==
    [URL : {"u"},
     Cookies : {<<>>, <<ConfigCookie("a", "1")>>,
                <<ConfigCookie("a", "1"), ConfigCookie("b", "1")>>},
     LocalStorage : {<<>>, <<ConfigItem("1")>>},
     CookieProfileID : {"", "p", "q"}]
      \cup {[URL |-> "", Cookies |-> <<>>, LocalStorage |-> <<>>, CookieProfileID |-> ""]}

DefaultCookieLists ==
    {<<>>, <<ConfigCookie("a", "3")>>, <<ConfigCookie("a", "3"), ConfigCookie("c", "3")>>}
DefaultStorageLists == {<<>>, <<ConfigItem("3")>>}

\* the configuration as json.Unmarshal leaves it
InitConfig ==
    /\ Idle
    /\ seg = NoSeg
    /\ pr = NoPr
    /\ be = NoBe
    /\ out = NoOut
    /\ full = NoFull
    /\ \E profiles \in ListsUpTo(CookieProfile, MaxProfiles),
          urls \in ListsUpTo(ConfigURL, MaxConfigURLs),
          cookies \in DefaultCookieLists, storage \in DefaultStorageLists :
          cf = [pc |-> "start", CookieProfiles |-> profiles,
                DefaultCookies |-> cookies, DefaultStorage |-> storage,
                URLs |-> urls, given |-> urls, cookieProfileMap |-> <<>>,
                i |-> 1, err |-> "nil"]

\* cookieProfileMap[profile.Name] = profile, for the profiles in order: of two
\* profiles with one name the map keeps the later
ProfileMap(profiles) ==
    [name \in {profiles[k].Name : k \in 1..Len(profiles)} |->
        LET last == CHOOSE k \in 1..Len(profiles) :
                       /\ profiles[k].Name = name
                       /\ \A j \in (k + 1)..Len(profiles) : profiles[j].Name # name
        IN  profiles[last]]

\* a resolution that falls back to the defaults when the profile gave nothing
ApplyCookiesDefaultsLast(url, map, defaults) ==
    LET own == IF url.CookieProfileID # "" /\ Len(url.Cookies) = 0
                  THEN map[url.CookieProfileID].Cookies ELSE url.Cookies
    IN  IF Len(own) = 0 THEN defaults ELSE own

\* config.URLs[i].Cookies after the loop body: the profile branch copies the
\* profile's cookies, the else branch the default cookies, each only into an
\* empty list
ApplyCookies(url, map, defaults) ==
    IF url.CookieProfileID # ""
        THEN IF Len(url.Cookies) = 0 THEN map[url.CookieProfileID].Cookies
                                    ELSE url.Cookies
        ELSE IF Len(url.Cookies) = 0 /\ Len(defaults) > 0 THEN defaults
                                                          ELSE url.Cookies

\* config.URLs[i].LocalStorage after the loop body
ApplyLocalStorage(url, map, defaults) ==
    IF url.CookieProfileID # ""
        THEN IF Len(url.LocalStorage) = 0 THEN map[url.CookieProfileID].LocalStorage
                                         ELSE url.LocalStorage
        ELSE IF Len(url.LocalStorage) = 0 /\ Len(defaults) > 0 THEN defaults
                                                               ELSE url.LocalStorage

\* if len(config.URLs) == 0 { return error }
CheckURLs ==
    /\ cf.pc = "start"
    /\ cf' = IF Len(cf.URLs) = 0
                THEN [cf EXCEPT !.pc = "error", !.err = "no URLs"]
                ELSE [cf EXCEPT !.pc = "profiles"]
    /\ UNCHANGED <<run, seg, pr, be, out, full>>

\* the loop over config.CookieProfiles
ValidateProfiles ==
    /\ cf.pc = "profiles"
    /\ cf' = IF \E k \in 1..Len(cf.CookieProfiles) : cf.CookieProfiles[k].Name = ""
                THEN [cf EXCEPT !.pc = "error", !.err = "profile name"]
                ELSE [cf EXCEPT !.pc = "urls",
                                !.cookieProfileMap = ProfileMap(cf.CookieProfiles)]
    /\ UNCHANGED <<run, seg, pr, be, out, full>>

\* one iteration of the loop over config.URLs
ValidateURL ==
    /\ cf.pc = "urls"
    /\ cf.i <= Len(cf.URLs)
    /\ LET url == cf.URLs[cf.i]
       IN  cf' = IF url.URL = ""
                     THEN [cf EXCEPT !.pc = "error", !.err = "URL value"]
                 ELSE IF url.CookieProfileID # ""
                         /\ url.CookieProfileID \notin DOMAIN cf.cookieProfileMap
                     THEN [cf EXCEPT !.pc = "error", !.err = "profile"]
                 ELSE [cf EXCEPT
                         !.URLs[cf.i].Cookies =
                             ApplyCookies(url, cf.cookieProfileMap, cf.DefaultCookies),
                         !.URLs[cf.i].LocalStorage =
                             ApplyLocalStorage(url, cf.cookieProfileMap, cf.DefaultStorage),
                         !.i = @ + 1]
    /\ UNCHANGED <<run, seg, pr, be, out, full>>

\* return nil
Validated ==
    /\ cf.pc = "urls"
    /\ cf.i > Len(cf.URLs)
    /\ cf' = [cf EXCEPT !.pc = "loaded"]
    /\ UNCHANGED <<run, seg, pr, be, out, full>>

NextConfig ==
    \/ CheckURLs
    \/ ValidateProfiles
    \/ ValidateURL
    \/ Validated

SpecConfig == InitConfig /\ [][NextConfig]_vars

(***************************************************************************)
(* The output directory taken alone: what the viewport goroutines of a run *)
(* write, by path.  CaptureURL names the URL's directory after the URL and *)
(* the second it starts in; every viewport goroutine works in the          *)
(* directory of its dimensions; each stage writes its audit records to the *)
(* cookie log and the cookie CSV of that directory, then its images.  The  *)
(* second a stage starts in, which the image names begin with, is left out *)
(* of the paths: the images of one task differ in kind and index.  With    *)
(* concurrency 2, the default, the goroutines of both URLs run together.   *)
(* The session starts with an empty jar and the page sets no cookie, so    *)
(* the jar holds a cookie once a configured one has been primed.  A file   *)
(* is kept as the set of its sections or lines (each names its writer and  *)
(* its stage, so no two are equal); the CSV header lines are counted.      *)
(***************************************************************************)
MaxOutTasks == 2
MaxClock == 1

OutViewports == {[Width |-> 800, Height |-> 1000], [Width |-> 1200, Height |-> 1000]}
OutPageHeights == {900, 3000}

\* sanitizeFilename on the names tried
sanitizeFilename(name) == IF name = "a b" THEN "a_b" ELSE name

OutURL == [Name : {"a_b", "a b", "c"}, Viewports : ListsUpTo(OutViewports, MaxOutTasks) \ {<<>>}]

OutTasks(urls) == {<<t, v>> \in (1..Len(urls)) \X (1..MaxOutTasks) : v <= Len(urls[t].Viewports)}

NoDir == [name |-> "", timestamp |-> -1]

InitOutput ==
    /\ Idle
    /\ seg = NoSeg
    /\ pr = NoPr
    /\ be = NoBe
    /\ cf = NoCf
    /\ full = NoFull
    /\ \E urls \in ListsUpTo(OutURL, MaxOutTasks) \ {<<>>},
          cookies \in BOOLEAN, ph \in OutPageHeights :
          /\ Cardinality(OutTasks(urls)) <= MaxOutTasks
          /\ urls[1].Name = "a_b"
          /\ urls[1].Viewports[1].Width = 800
          /\ Len(urls) = 2 => urls[2].Viewports[1].Width = 800
          /\ out = [pc |-> "capture", URLs |-> urls, Cookies |-> cookies,
                    pageHeight |-> ph, clock |-> 0,
                    urlDir |-> [t \in 1..Len(urls) |-> NoDir],
                    task |-> [i \in OutTasks(urls) |->
                                 [pc |-> "wait", stage |-> 1, phase |-> "before",
                                  fileContent |-> {}, writeHeader |-> FALSE,
                                  tiles |-> {}]],
                    images |-> {}, logs |-> <<>>, csv |-> <<>>, logged |-> {}]

OutViewport(i) == out.URLs[i[1]].Viewports[i[2]]

\* paths that leave the directory of the viewport out
OutPathFlat(i, kind, n) ==
    [dir |-> out.urlDir[i[1]], vp |-> [Width |-> 0, Height |-> 0], kind |-> kind, n |-> n]

\* filepath.Join(urlDir, "WxH", filename): the path of a file of task i
OutPath(i, kind, n) ==
    [dir |-> out.urlDir[i[1]], vp |-> OutViewport(i), kind |-> kind, n |-> n]

\* the audit record SaveCookiesToFile writes for task i where it stands
OutRecord(i) ==
    LET type == StageTypes(FALSE)[out.task[i].stage]
    IN  [stage |-> IF out.task[i].phase = "before" THEN BeforeStage(type)
                                                   ELSE AfterStage(type),
         type |-> type, vp |-> OutViewport(i), by |-> i]

\* len(cookies) at that record
OutJar(i) ==
    IF out.Cookies /\ ~(out.task[i].stage = 1 /\ out.task[i].phase = "before")
        THEN 1 ELSE 0

\* the content of a file, empty when it does not exist
OutRead(fsys, path) == IF path \in DOMAIN fsys THEN fsys[path] ELSE {}

\* os.WriteFile / the file after an append
OutWrite(fsys, path, content) ==
    [q \in DOMAIN fsys \cup {path} |-> IF q = path THEN content ELSE fsys[q]]

\* time.Now() moves on to the next second, while a directory is still to be named
Tick ==
    /\ out.pc = "capture"
    /\ out.clock < MaxClock
    /\ \E t \in DOMAIN out.URLs : out.urlDir[t] = NoDir
    /\ out' = [out EXCEPT !.clock = @ + 1]
    /\ UNCHANGED <<run, seg, pr, be, cf, full>>

\* CaptureURL up to the start of its viewport goroutines
OutCaptureURL(t) ==
    /\ out.pc = "capture"
    /\ out.urlDir[t] = NoDir
    /\ out' = [out EXCEPT
                 !.urlDir[t] = [name |-> sanitizeFilename(out.URLs[t].Name),
                                timestamp |-> out.clock],
                 !.task = [i \in DOMAIN out.task |->
                              IF i[1] = t THEN [out.task[i] EXCEPT !.pc = "mkdir"]
                                          ELSE out.task[i]]]
    /\ UNCHANGED <<run, seg, pr, be, cf, full>>

\* os.MkdirAll(viewportDir), the backend and the session
OutMkdirViewport(i) ==
    /\ out.task[i].pc = "mkdir"
    /\ out' = [out EXCEPT !.task[i].pc = "stage"]
    /\ UNCHANGED <<run, seg, pr, be, cf, full>>

\* captureFullPageScreenshot / captureViewportScreenshots: navigate
OutStartStage(i) ==
    /\ out.task[i].pc = "stage"
    /\ out' = [out EXCEPT !.task[i].pc = "log.read", !.task[i].phase = "before"]
    /\ UNCHANGED <<run, seg, pr, be, cf, full>>

\* saveCookiesTextLog: os.Stat, os.ReadFile
LogRead(i) ==
    /\ out.task[i].pc = "log.read"
    /\ out' = [out EXCEPT
                 !.task[i].pc = "log.write",
                 !.task[i].fileContent = OutRead(out.logs, OutPath(i, "log", 0))]
    /\ UNCHANGED <<run, seg, pr, be, cf, full>>

\* saveCookiesTextLog: append to fileContent, os.WriteFile
LogWrite(i) ==
    /\ out.task[i].pc = "log.write"
    /\ LET path == OutPath(i, "log", 0)
       IN  out' = [out EXCEPT
                     !.task[i].pc = "csv.stat",
                     !.task[i].fileContent = {},
                     !.logs = OutWrite(@, path,
                                       out.task[i].fileContent \cup {OutRecord(i)}),
                     !.logged = @ \cup {[path |-> path, record |-> OutRecord(i)]}]
    /\ UNCHANGED <<run, seg, pr, be, cf, full>>

\* saveCookiesCSV: os.Stat decides writeHeader
CsvStat(i) ==
    /\ out.task[i].pc = "csv.stat"
    /\ out' = [out EXCEPT
                 !.task[i].pc = "csv.append",
                 !.task[i].writeHeader = OutPath(i, "csv", 0) \notin DOMAIN out.csv]
    /\ UNCHANGED <<run, seg, pr, be, cf, full>>

\* saveCookiesCSV: os.OpenFile(O_APPEND|O_CREATE), the header line when
\* writeHeader, one line per cookie (each an append to the end of the file);
\* then the priming and its "after" record when cookies are configured, or
\* the stage's capture
CsvAppend(i) ==
    /\ out.task[i].pc = "csv.append"
    /\ LET path == OutPath(i, "csv", 0)
           header == [OutRecord(i) EXCEPT !.type = "header"]
           lines == (IF out.task[i].writeHeader THEN {header} ELSE {})
                        \cup (IF OutJar(i) = 0 THEN {} ELSE {OutRecord(i)})
       IN  out' = [out EXCEPT
                     !.task[i].pc = IF out.task[i].phase = "before" /\ out.Cookies
                                       THEN "log.read" ELSE "shoot",
                     !.task[i].phase = IF out.Cookies THEN "after" ELSE @,
                     !.task[i].writeHeader = FALSE,
                     !.csv = OutWrite(@, path, OutRead(out.csv, path) \cup lines)]
    /\ UNCHANGED <<run, seg, pr, be, cf, full>>

\* captureFullPageScreenshot: os.WriteFile of the full-page image
WriteFull(i) ==
    /\ out.task[i].pc = "shoot"
    /\ out.task[i].stage = 1
    /\ out' = [out EXCEPT
                 !.task[i].pc = "stage",
                 !.task[i].stage = 2,
                 !.images = @ \cup {OutPath(i, "full", 0)}]
    /\ UNCHANGED <<run, seg, pr, be, cf, full>>

\* captureViewportScreenshots: the page height and the tiles to write
OutMeasure(i) ==
    /\ out.task[i].pc = "shoot"
    /\ out.task[i].stage = 2
    /\ out' = [out EXCEPT
                 !.task[i].pc = "tiles",
                 !.task[i].tiles =
                     1..ViewportCount(out.pageHeight, OutViewport(i).Height)]
    /\ UNCHANGED <<run, seg, pr, be, cf, full>>

\* os.WriteFile of tile n (index i+1 of the tile goroutine, or 1 on the single path)
WriteTileFile(i, n) ==
    /\ out.task[i].pc = "tiles"
    /\ n \in out.task[i].tiles
    /\ out' = [out EXCEPT
                 !.task[i].tiles = @ \ {n},
                 !.images = @ \cup {OutPath(i, "viewport", n)}]
    /\ UNCHANGED <<run, seg, pr, be, cf, full>>

\* captureWithViewport returns nil
OutReturn(i) ==
    /\ out.task[i].pc = "tiles"
    /\ out.task[i].tiles = {}
    /\ out' = [out EXCEPT !.task[i].pc = "done"]
    /\ UNCHANGED <<run, seg, pr, be, cf, full>>

\* the directory, the backend, the session or a capture returns an error: the
\* goroutine sends it and returns
OutFail(i) ==
    /\ out.task[i].pc \in {"mkdir", "shoot"}
    /\ out' = [out EXCEPT !.task[i].pc = "failed", !.task[i].tiles = {},
                          !.task[i].fileContent = {}, !.task[i].writeHeader = FALSE]
    /\ UNCHANGED <<run, seg, pr, be, cf, full>>

NextOutput ==
    \/ Tick
    \/ \E t \in DOMAIN out.URLs : OutCaptureURL(t)
    \/ \E i \in DOMAIN out.task : OutMkdirViewport(i)
    \/ \E i \in DOMAIN out.task : OutStartStage(i)
    \/ \E i \in DOMAIN out.task : LogRead(i)
    \/ \E i \in DOMAIN out.task : LogWrite(i)
    \/ \E i \in DOMAIN out.task : CsvStat(i)
    \/ \E i \in DOMAIN out.task : CsvAppend(i)
    \/ \E i \in DOMAIN out.task : WriteFull(i)
    \/ \E i \in DOMAIN out.task : OutMeasure(i)
    \/ \E i \in DOMAIN out.task : \E n \in out.task[i].tiles : WriteTileFile(i, n)
    \/ \E i \in DOMAIN out.task : OutReturn(i)
    \/ \E i \in DOMAIN out.task : OutFail(i)

SpecOutput == InitOutput /\ [][NextOutput]_vars

(***************************************************************************)
(* The capture of one full-page stage taken alone: the closing action of   *)
(* captureFullPageScreenshot measures the page, overrides the device       *)
(* metrics, captures, and on a failed capture of a tall page overrides and *)
(* captures once more; the image is written after chromedp.Run returned.   *)
(* captureFullPageWithViewProof does the same for the proof image, after   *)
(* the action that extracts the values of the proof keys from the cookies  *)
(* and the local storage and the action that adds the overlay block.  Each *)
(* browser operation and the write may fail.  metrics: the overrides in    *)
(* the order they were set; image: the metrics the screenshot was taken    *)
(* under; readFailed, unread: the reads of the extraction that failed.     *)
(***************************************************************************)
maxHeight == 16384
reducedHeight == 8192

InitFull ==
    /\ Idle
    /\ seg = NoSeg
    /\ pr = NoPr
    /\ be = NoBe
    /\ cf = NoCf
    /\ out = NoOut
    /\ \E vw \in {800, 1200}, over \in {0, 400, 800},
          sh \in {0, 600, 8191, 8192, 8193, 16383, 16384, 16385, 20000},
          \* s.Config.ViewProof (empty: the stage is captureFullPageScreenshot,
          \* else captureFullPageWithViewProof), and the cookies and the local
          \* storage of the session after the priming
          keys \in {{}, {"a"}, {"a", "k"}},
          jar \in {{}, {[Name |-> "a", Value |-> ""]}, {[Name |-> "a", Value |-> "1"]},
                   {[Name |-> "b", Value |-> "1"]}},
          storage \in {{}, {[Key |-> "k", Value |-> ""]}, {[Key |-> "k", Value |-> "1"]}} :
          /\ keys = {} => jar = {} /\ storage = {}
          /\ full = [pc |-> IF keys = {} THEN "measure" ELSE "extract",
                     ViewProof |-> keys, jar |-> jar, storage |-> storage,
                     viewproofData |-> {}, readFailed |-> FALSE, unread |-> {},
                     overlay |-> FALSE,
                     viewportWidth |-> vw,        \* viewport.Width
                     scrollWidth |-> vw + over,   \* what the page answers
                     scrollHeight |-> sh,
                     width |-> 0, height |-> 0,
                     metrics |-> <<>>, attempts |-> 0,
                     image |-> [width |-> 0, height |-> 0],
                     written |-> FALSE, err |-> "nil"]

\* the operation at step `at` failed: the stage returns the error
FullFailed(at) == [full EXCEPT !.pc = "failed", !.err = at]

\* an extraction that returns the error of storage.GetCookies()
ExtractViewProofFatal ==
    /\ full.pc = "extract"
    /\ \/ full' = [FullFailed("extract") EXCEPT !.readFailed = TRUE]
       \/ \E readable \in SUBSET full.ViewProof :
             full' = [full EXCEPT
                        !.unread = full.ViewProof \ readable,
                        !.viewproofData =
                            {[key |-> "cookie:" \o c.Name, value |-> c.Value] :
                                c \in {d \in full.jar : d.Name \in full.ViewProof}}
                            \cup
                            {[key |-> "localStorage:" \o k,
                              value |-> GetItem(full.storage, k)] :
                                k \in {x \in readable :
                                          GetItem(full.storage, x) \notin {"", "null"}}},
                        !.pc = "overlay"]
    /\ UNCHANGED <<run, seg, pr, be, cf, out>>

\* the action that fills viewproofData: storage.GetCookies(), whose failure
\* ends the action with nil; an entry per cookie named like a proof key; an
\* entry per proof key whose localStorage.getItem is read (readable: the
\* keys whose Evaluate returns no error) and is not empty
ExtractViewProof ==
    /\ full.pc = "extract"
    /\ \/ full' = [full EXCEPT !.readFailed = TRUE, !.pc = "overlay"]
       \/ \E readable \in SUBSET full.ViewProof :
             full' = [full EXCEPT
                        !.unread = full.ViewProof \ readable,
                        !.viewproofData =
                            {[key |-> "cookie:" \o c.Name, value |-> c.Value] :
                                c \in {d \in full.jar : d.Name \in full.ViewProof}}
                            \cup
                            {[key |-> "localStorage:" \o k,
                              value |-> GetItem(full.storage, k)] :
                                k \in {x \in readable :
                                          GetItem(full.storage, x) \notin {"", "null"}}},
                        !.pc = "overlay"]
    /\ UNCHANGED <<run, seg, pr, be, cf, out>>

\* if len(viewproofData) > 0: the script of createViewProof is evaluated, and
\* its error is returned
AddViewProofBlock ==
    /\ full.pc = "overlay"
    /\ IF full.viewproofData # {}
       THEN \/ full' = [full EXCEPT !.overlay = TRUE, !.pc = "measure"]
            \/ full' = FullFailed("overlay")
       ELSE full' = [full EXCEPT !.pc = "measure"]
    /\ UNCHANGED <<run, seg, pr, be, cf, out>>

\* Evaluate({width, height}); width := int64(viewport.Width); the height
\* limited to maxHeight
FullMeasure ==
    /\ full.pc = "measure"
    /\ \/ full' = [full EXCEPT
                      !.width = full.viewportWidth,
                      !.height = IF full.scrollHeight > maxHeight
                                 THEN maxHeight ELSE full.scrollHeight,
                      !.pc = "override"]
       \/ full' = FullFailed("measure")
    /\ UNCHANGED <<run, seg, pr, be, cf, out>>

\* emulation.SetDeviceMetricsOverride(width, height, 1, false)
FullOverride ==
    /\ full.pc = "override"
    /\ \/ full' = [full EXCEPT
                      !.metrics = Append(@, [width |-> full.width,
                                             height |-> full.height]),
                      !.pc = "capture"]
       \/ full' = FullFailed("override")
    /\ UNCHANGED <<run, seg, pr, be, cf, out>>

\* chromedp.CaptureScreenshot(&buf); on an error, if height > 8192 the
\* reduced attempt, else return err
FullCapture ==
    /\ full.pc = "capture"
    /\ \/ full' = [full EXCEPT !.attempts = @ + 1,
                                !.image = full.metrics[Len(full.metrics)],
                                !.pc = "write"]
       \/ full' = IF full.height > reducedHeight
                  THEN [full EXCEPT !.attempts = @ + 1, !.pc = "reduce"]
                  ELSE [FullFailed("capture") EXCEPT !.attempts = @ + 1]
    /\ UNCHANGED <<run, seg, pr, be, cf, out>>

\* emulation.SetDeviceMetricsOverride(width, 8192, 1, false)
FullReduce ==
    /\ full.pc = "reduce"
    /\ \/ full' = [full EXCEPT
                      !.metrics = Append(@, [width |-> full.width,
                                             height |-> reducedHeight]),
                      !.pc = "recapture"]
       \/ full' = FullFailed("override")
    /\ UNCHANGED <<run, seg, pr, be, cf, out>>

\* return chromedp.CaptureScreenshot(&buf).Do(ctx)
FullRecapture ==
    /\ full.pc = "recapture"
    /\ \/ full' = [full EXCEPT !.attempts = @ + 1,
                                !.image = full.metrics[Len(full.metrics)],
                                !.pc = "write"]
       \/ full' = [FullFailed("capture") EXCEPT !.attempts = @ + 1]
    /\ UNCHANGED <<run, seg, pr, be, cf, out>>

\* os.WriteFile(filepath, buf, 0644)
FullWrite ==
    /\ full.pc = "write"
    /\ \/ full' = [full EXCEPT !.written = TRUE, !.pc = "done"]
       \/ full' = FullFailed("write")
    /\ UNCHANGED <<run, seg, pr, be, cf, out>>

NextFull ==
    \/ ExtractViewProof
    \/ AddViewProofBlock
    \/ FullMeasure
    \/ FullOverride
    \/ FullCapture
    \/ FullReduce
    \/ FullRecapture
    \/ FullWrite

SpecFull == InitFull /\ [][NextFull]_vars

(***************************************************************************)
(* The three pools.                                                        *)
(***************************************************************************)
\* the targets whose goroutine holds a slot of sem (it runs CaptureURL, or has
\* returned from it and not yet released the slot)
RunningTargets == {t \in T : tpc[t] \in {"start", "wait", "release"}}
\* the viewports of target t whose goroutine holds a slot of viewportSem
RunningViewports(t) == {v \in V : vpc[t][v] \in {"run", "tilewait", "teardown", "exit"}}
\* the tiles of viewport <<t, v>> whose goroutine holds a slot of vpSem
RunningTiles(t, v) ==
    {k \in 1..Len(tiles[t][v]) : tiles[t][v][k].pc \in {"scroll", "capture", "write"}}

C2_TileShowsOwnOffset ==
    \A t \in T, v \in V : \A k \in 1..Len(tiles[t][v]) :
        tiles[t][v][k].pc = "write" =>
            tiles[t][v][k].buf = ScrollPos(k - 1, pageHeight[t], Height(t, v))

(***************************************************************************)
(* Failures stay where they happen.                                        *)
(***************************************************************************)
Finished == mainPc = "returned"
UrlDirFailed(t) == uRet[t] # NoErr /\ uRet[t].stage = "urldir"

NoFailure ==
    /\ sent.urls = <<>>
    /\ \A t \in T : sent.url[t] = <<>>
    /\ \A t \in T, v \in V : sent.tiles[t][v] = <<>>

\* C9: CaptureURLs returns only after every target task has finished, and
\* CaptureURL only after every viewport task of the target has; the result is
\* nil exactly when no task failed, and otherwise the error reported first.
C9_FirstErrorAfterAll ==
    /\ Finished =>
          /\ \A t \in 1..NumURLs : tpc[t] = "done"
          /\ result = NoErr <=> NoFailure
          /\ result # NoErr => result = Head(sent.urls)
    /\ \A t \in 1..NumURLs :
          tpc[t] \in {"release", "signal", "done"} /\ ~UrlDirFailed(t) =>
              /\ \A v \in 1..NumViewports(t) : vpc[t][v] = "done"
              /\ uRet[t] = NoErr <=>
                    /\ sent.url[t] = <<>>
                    /\ \A v \in V : sent.tiles[t][v] = <<>>
              /\ uRet[t] # NoErr => uRet[t] = Head(sent.url[t])
    /\ \A t \in T, v \in V :
          vpc[t][v] \in {"teardown", "exit", "done"} /\ sent.tiles[t][v] # <<>> =>
              vErr[t][v] = Head(sent.tiles[t][v])

\* the run is over with two failed targets, and the error returned is that of
\* the target configured later
C9_LaterTargetReportedFirst ==
    /\ Finished
    /\ Len(sent.urls) = 2
    /\ result # NoErr
    /\ result.t = 2
    /\ uRet[1] # NoErr

(***************************************************************************)
(* Browser sessions.                                                       *)
(***************************************************************************)
\* C10: every browser session is created by exactly one (target, viewport)
\* task, and every operation on it is issued by that task or its tile tasks.
C10_SessionsNotShared ==
    /\ \A s \in SessionIds :
          sessions[s].state # "none" => sessions[s].users \subseteq {sessions[s].owner}
    /\ \A t \in T, v \in V :
          browserCtx[t][v] # 0 => sessions[browserCtx[t][v]].owner = <<t, v>>
    /\ \A t \in T, v \in V, u \in T, w \in V :
          browserCtx[t][v] # 0 /\ browserCtx[t][v] = browserCtx[u][w] => <<t, v>> = <<u, w>>

\* two viewport tasks hold a live session each at the same time, and a tile
\* task of one of them has scrolled its session
C10_TwoLiveSessions ==
    \E t \in T, v \in V, u \in T, w \in V :
        /\ <<t, v>> # <<u, w>>
        /\ browserCtx[t][v] # 0 /\ sessions[browserCtx[t][v]].state = "live"
        /\ browserCtx[u][w] # 0 /\ sessions[browserCtx[u][w]].state = "live"
        /\ \E k \in 1..Len(tiles[t][v]) : tiles[t][v][k].pc = "capture"

(***************************************************************************)
(* Segmentation.                                                           *)
(***************************************************************************)
SegMeasured == seg.pc \in {"single", "tiles", "done"}

\* C3: for every page height >= 0 and viewport height >= 1 the number of tile
\* captures is ceil(pageHeight / viewportHeight) -- the least n with
\* n * viewportHeight >= pageHeight -- and is 1 when that is less than 1.
C3_TileCount ==
    LET ph == seg.pageHeight
        vh == seg.viewportHeight
        n  == seg.viewportCount
    IN  /\ SegMeasured =>
              /\ n >= 1
              /\ ph > 0 => n * vh >= ph /\ (n - 1) * vh < ph
              /\ ph = 0 => n = 1
        /\ seg.pc = "done" => Len(seg.shots) = n

\* the captures of an empty page are over: one capture, though ceil(0 / vh) = 0
C3_EmptyPageOneTile ==
    /\ seg.pc = "done"
    /\ seg.pageHeight = 0
    /\ seg.viewportHeight = 7
    /\ Len(seg.shots) = 1

\* C4: when pageHeight > viewportHeight, tile i (0-indexed) is scrolled to
\* i * viewportHeight, except the final tile, whose offset is
\* max(0, pageHeight - viewportHeight); pageHeight 1000 and viewportHeight 300
\* give 4 tiles at offsets 0, 300, 600, 700.
C4_TileOffsets ==
    LET ph == seg.pageHeight
        vh == seg.viewportHeight
    IN  /\ SegMeasured /\ ph > vh =>
              /\ seg.pc # "single"
              /\ \A k \in 1..Len(seg.shots) :
                    /\ seg.shots[k].n = k
                    /\ seg.shots[k].at = IF k = seg.viewportCount
                                         THEN (IF ph - vh > 0 THEN ph - vh ELSE 0)
                                         ELSE (k - 1) * vh
        /\ seg.pc = "done" /\ ph = 1000 /\ vh = 300 =>
              seg.shots = <<[n |-> 1, at |-> 0], [n |-> 2, at |-> 300],
                            [n |-> 3, at |-> 600], [n |-> 4, at |-> 700]>>

\* the four tiles of a 1000 pixel page under a 300 pixel viewport were started
C4_ThousandByThreeHundred ==
    /\ seg.pc = "done"
    /\ seg.pageHeight = 1000
    /\ seg.viewportHeight = 300
    /\ Len(seg.shots) = 4
    /\ seg.shots[4].at = 700

\* C5: when pageHeight <= viewportHeight exactly one tile is captured, at
\* scroll offset 0, saved with tile index 1, and no tile goroutine is started.
C5_SingleTile ==
    SegMeasured /\ seg.pageHeight <= seg.viewportHeight =>
        /\ seg.pc # "tiles"
        /\ seg.started = 0
        /\ seg.pc = "done" => seg.shots = <<[n |-> 1, at |-> 0]>>

\* the capture of a 250 pixel page under a 300 pixel viewport is over
C5_ShortPage ==
    /\ seg.pc = "done"
    /\ seg.pageHeight = 250
    /\ seg.viewportHeight = 300
    /\ seg.started = 0
    /\ seg.shots = <<[n |-> 1, at |-> 0]>>

(***************************************************************************)
(* Priming.                                                                *)
(***************************************************************************)
\* C6: when priming is run twice in a row on the same session with the same
\* configured cookies and local-storage entries, the second run marks nothing
\* as changed and performs zero page reloads.
C6_SecondPrimingIdle ==
    \A k \in 2..Len(pr.primed) :
        ~pr.primed[k].changed /\ pr.primed[k].reloads = 0

\* the sections of the text log written under a stage name and screenshot type
Sections(stage, type) ==
    {k \in 1..Len(pr.text) : pr.text[k].stage = stage /\ pr.text[k].type = type}
PrTypes == {StageTypes(pr.ViewProof)[k] : k \in 1..Len(StageTypes(pr.ViewProof))}
PrimedTypes == {pr.primed[k].type : k \in 1..Len(pr.primed)}
\* setCookiesAndLocalStorage was invoked in the stage of this type
PrInvoked(type) ==
    \/ type \in PrimedTypes
    \/ PrType = type /\ pr.pc \in {"cookie", "storage", "refresh", "after"}

\* C7 (amended): for every priming invocation exactly one "before" record is
\* written before it starts, and exactly one "after" record is written when
\* it completes without error, whether or not any cookie or local-storage
\* value changed; no "after" record is written before the priming has run.
C7_AfterRecordAlways ==
    /\ pr.pc # "off" =>
          \A type \in PrTypes :
              /\ Cardinality(Sections(BeforeStage(type), type)) <= 1
              /\ Cardinality(Sections(AfterStage(type), type)) <= 1
              /\ PrInvoked(type) => Cardinality(Sections(BeforeStage(type), type)) = 1
              /\ type \in PrimedTypes => Cardinality(Sections(AfterStage(type), type)) = 1
              /\ PrType = type /\ pr.pc \in {"navigate", "before", "prime", "cookie",
                                             "storage", "refresh", "after"}
                    => Sections(AfterStage(type), type) = {}
    /\ pr.pc # "off" => Len(pr.primed) = Cardinality(PrimedTypes)

\* a priming completed that changed no cookie and no local-storage entry and
\* marked nothing as changed, and its "after" record is in the log
C7_UnchangedPrimingRecorded ==
    /\ pr.pc # "off"
    /\ \E k \in 1..Len(pr.primed) :
          /\ ~pr.primed[k].altered
          /\ ~pr.primed[k].changed
          /\ Cardinality(Sections(AfterStage(pr.primed[k].type), pr.primed[k].type)) = 1
          /\ Cardinality(Sections(BeforeStage(pr.primed[k].type), pr.primed[k].type)) = 1

\* C7 as stated: for every priming invocation exactly one "before" record is
\* written, and an "after" record is written if and only if at least one
\* cookie or local-storage value actually changed.
C7_AfterIffChanged ==
    pr.pc # "off" =>
        \A k \in 1..Len(pr.primed) :
            /\ Cardinality(Sections(BeforeStage(pr.primed[k].type), pr.primed[k].type)) = 1
            /\ Sections(AfterStage(pr.primed[k].type), pr.primed[k].type) # {}
                  <=> pr.primed[k].altered

(***************************************************************************)
(* Teardown of the sessions.                                               *)
(***************************************************************************)
\* C11: every browser session a viewport task creates is torn down when that
\* task ends, whether its captures succeeded or failed: a session is live
\* only while its task is inside captureWithViewport, the slot of
\* viewportSem is released only after the teardown, and no session is live
\* once the viewport task is over or CaptureURLs has returned.
C11_SessionsTornDown ==
    /\ \A s \in SessionIds :
          sessions[s].state = "live" =>
              vpc[sessions[s].owner[1]][sessions[s].owner[2]] \in {"tilewait", "teardown"}
    /\ \A t \in T, v \in V :
          vpc[t][v] \in {"exit", "done"} /\ browserCtx[t][v] # 0 =>
              sessions[browserCtx[t][v]].state = "closed"
    /\ Finished => \A s \in SessionIds : sessions[s].state # "live"

\* a viewport task whose captures failed is over, its slot released, and the
\* session it created is closed
C11_FailedTaskSessionClosed ==
    \E t \in T, v \in V :
        /\ vpc[t][v] = "done"
        /\ vErr[t][v] # NoErr
        /\ browserCtx[t][v] # 0
        /\ sessions[browserCtx[t][v]].state = "closed"

(***************************************************************************)
(* Backend resolution.                                                     *)
(***************************************************************************)
\* the resolutions task i has attempted, as a set
Tried(i) == {be.task[i].tried[k] : k \in 1..Len(be.task[i].tried)}

C13_ForcedModes ==
    /\ be.pc # "off" /\ be.ChromeMode = "local" =>
          /\ be.container.by # "run"
          /\ ~be.container.verified
          /\ \A i \in W :
                /\ Tried(i) \subseteq {"local"}
                /\ ~be.localFound /\ be.task[i].tried # <<>> =>
                      /\ be.task[i].pc = "done"
                      /\ be.task[i].err = "resolve"
                      /\ ~be.task[i].session
    /\ be.pc # "off" /\ be.ChromeMode = "docker" =>
          \A i \in W :
              /\ Tried(i) \subseteq {"remote"}
              /\ be.task[i].backend \in {"none", "remote"}
              /\ be.task[i].session => be.task[i].checked
              /\ be.task[i].pc = "done" /\ ~be.task[i].checked =>
                    be.task[i].err = "resolve" /\ ~be.task[i].session

\* in local mode without an executable a task failed although docker is
\* installed and a container is running
C13_LocalFailedBesideContainer ==
    /\ be.pc # "off"
    /\ be.ChromeMode = "local"
    /\ ~be.localFound
    /\ be.dockerInstalled
    /\ be.container.state = "healthy"
    /\ \E i \in W : be.task[i].pc = "done" /\ be.task[i].err = "resolve"

(***************************************************************************)
(* The chrome container.                                                   *)
(***************************************************************************)
\* C14: startDockerChrome returns an endpoint only after a liveness check of
\* the call succeeded, and it never removes an instance that is healthy: one
\* that a liveness check has verified and that still answers.
C14_VerifiedNeverRestarted ==
    be.pc # "off" =>
        /\ \A i \in W : be.task[i].backend = "remote" => be.task[i].checked
        /\ ~be.removedVerified

\* C15: the shutdown routine stops only an instance this run started: a
\* container that was running before the run is not stopped by it.
C15_OnlyOwnInstanceStopped ==
    be.pc # "off" => ~be.stoppedOther

\* C16: once the process has exited, no instance this run started is running,
\* whether the run succeeded, failed or was interrupted; and the exit code is
\* not zero when a task failed.
C16_TornDownOnEveryExit ==
    be.pc # "off" /\ be.exitCode # -1 =>
        /\ ~(be.container.by = "run" /\ be.container.state # "absent")
        /\ (\E i \in W : be.task[i].err # "nil") => be.exitCode # 0

(***************************************************************************)
(* Cookie priority.                                                        *)
(***************************************************************************)
Elems(list) == {list[k] : k \in 1..Len(list)}

\* C17: for every URL the loop has passed, the cookies it will be primed with
\* are its own list when that is not empty, else the list of a profile with
\* the referenced name, else (no profile referenced) the default list.  So a
\* cookie of the URL's own list is never replaced by a default or profile
\* cookie of its name, and a cookie that is not the URL's own is applied only
\* to a URL without cookies of its own.
C17_CookiePriority ==
    cf.pc \in {"urls", "loaded", "error"} =>
        \A k \in 1..Len(cf.URLs) :
            LET own == cf.given[k].Cookies
                id == cf.given[k].CookieProfileID
                effective == cf.URLs[k].Cookies
            IN  IF k >= cf.i THEN effective = own
                ELSE /\ own # <<>> => effective = own
                     /\ own = <<>> /\ id # "" =>
                           \E j \in 1..Len(cf.CookieProfiles) :
                               /\ cf.CookieProfiles[j].Name = id
                               /\ effective = cf.CookieProfiles[j].Cookies
                     /\ own = <<>> /\ id = "" => effective = cf.DefaultCookies
                     /\ \A c \in Elems(effective) :
                           /\ (\E o \in Elems(own) : o.Name = c.Name) => c \in Elems(own)
                           /\ c \notin Elems(own) => own = <<>>

\* a loaded configuration with a default cookie a: one URL keeps its own a, the
\* other, without cookies but with a profile that has none, gets no cookie
C17_OwnKeptProfileEmpty ==
    /\ cf.pc = "loaded"
    /\ Len(cf.URLs) = 2
    /\ ConfigCookie("a", "3") \in Elems(cf.DefaultCookies)
    /\ cf.URLs[1].Cookies = <<ConfigCookie("a", "1")>>
    /\ cf.given[2].Cookies = <<>>
    /\ cf.given[2].CookieProfileID = "p"
    /\ cf.URLs[2].Cookies = <<>>

(***************************************************************************)
(* The files of a run.                                                     *)
(***************************************************************************)
\* a URL with two viewports of different dimensions and a page of 3000 pixels,
\* both viewport goroutines returned without error
TwoViewportsDone ==
    /\ out.pc = "capture"
    /\ Len(out.URLs) = 1
    /\ Len(out.URLs[1].Viewports) = 2
    /\ out.URLs[1].Viewports[1] # out.URLs[1].Viewports[2]
    /\ out.pageHeight = 3000
    /\ \A i \in DOMAIN out.task : out.task[i].pc = "done"

\* the images, the log sections and the CSV files of such a run
TwoViewportsOutput ==
    /\ Cardinality({f \in out.images : f.kind = "full"}) = 2
    /\ Cardinality({f \in out.images : f.kind = "viewport"}) = 2 * 3
    /\ \A i \in DOMAIN out.task :
          /\ OutPath(i, "full", 0) \in out.images
          /\ {f.n : f \in {g \in out.images : /\ g.kind = "viewport"
                                              /\ g.dir = out.urlDir[1]
                                              /\ g.vp = OutViewport(i)}} = 1..3
          /\ OutPath(i, "log", 0) \in DOMAIN out.logs
          /\ \E r \in out.logs[OutPath(i, "log", 0)] : r.vp = OutViewport(i)
          /\ OutPath(i, "csv", 0) \in DOMAIN out.csv

CsvRows(i) == {l \in out.csv[OutPath(i, "csv", 0)] : l.type # "header"}

C19_DirectoriesNotShared ==
    out.pc = "capture" =>
        \A t \in DOMAIN out.URLs, u \in DOMAIN out.URLs :
            /\ t # u
            /\ out.URLs[t].Name = out.URLs[u].Name
            /\ out.urlDir[t] # NoDir
            /\ out.urlDir[u] # NoDir
            => out.urlDir[t] # out.urlDir[u]

\* C20: every section written to a cookie log is in it, and every cookie CSV
\* has its header line exactly once.
C20_LogsAppendOnly ==
    out.pc = "capture" =>
        /\ \A h \in out.logged : h.record \in out.logs[h.path]
        /\ \A path \in DOMAIN out.csv :
              Cardinality({l \in out.csv[path] : l.type = "header"}) = 1

(***************************************************************************)
(* Deadlines and cancellation.                                             *)
(***************************************************************************)
\* C21: each target gets its own deadline of 120 s plus 60 s per viewport,
\* and an expired deadline aborts only operations of its own target: every
\* operation that failed on a finished context, in a viewport stage or in a
\* tile, belongs to a target whose own deadline expired.
C21_DeadlinePerTarget ==
    /\ \A t \in 1..NumURLs :
          tpc[t] \notin {"idle", "start"} =>
              ctx[t].timeout = 120 + 60 * Len(cfg.URLs[t].Viewports)
    /\ \A t \in T, v \in V :
          /\ vErr[t][v] # NoErr /\ vErr[t][v].cause = "ctx" =>
                ctx[t].state = "deadline"
          /\ \A k \in DOMAIN sent.tiles[t][v] :
                sent.tiles[t][v][k].cause = "ctx" => ctx[t].state = "deadline"

\* the run is over: the deadline of one target expired and aborted it, and a
\* target with another viewport count, so another deadline, captured all
C21_OtherTargetCaptured ==
    /\ Finished
    /\ \E t \in 1..NumURLs, u \in 1..NumURLs :
          /\ ctx[t].state = "deadline"
          /\ uRet[t] # NoErr /\ uRet[t].cause = "ctx"
          /\ ctx[u].state = "cancelled" /\ uRet[u] = NoErr
          /\ NumViewports(u) >= 1
          /\ ctx[u].timeout # ctx[t].timeout

C23_StagesInOrder ==
    pr.pc # "off" =>
        LET order == IF pr.ViewProof THEN <<"full-proof", "full page", "viewport">>
                                     ELSE <<"full page", "viewport">>
            primes == Len(pr.Cookies) > 0 \/ Len(pr.LocalStorage) > 0
            \* the stage an audit record belongs to
            StageOf(r) == CHOOSE k \in 1..Len(order) : order[k] = r.type
        IN  /\ pr.stage \in 1..Len(order)
            /\ Len(pr.shots) = IF pr.pc = "done" THEN Len(order) ELSE pr.stage - 1
            /\ \A k \in 1..Len(pr.shots) :
                  /\ pr.shots[k].type = order[k]
                  /\ \E j \in 1..pr.shots[k].records :
                        /\ pr.text[j].type = order[k]
                        /\ pr.text[j].stage \in {"before", "before-viewport"}
                  /\ primes =>
                        /\ pr.shots[k].records > 0
                        /\ pr.text[pr.shots[k].records].type = order[k]
                        /\ pr.text[pr.shots[k].records].stage \in {"after", "after-viewport"}
            /\ \A j \in 1..Len(pr.text) :
                  /\ pr.text[j].type \in {order[k] : k \in 1..pr.stage}
                  /\ StageOf(pr.text[j]) > 1 =>
                        /\ Len(pr.shots) >= StageOf(pr.text[j]) - 1
                        /\ j > pr.shots[StageOf(pr.text[j]) - 1].records
                  /\ StageOf(pr.text[j]) <= Len(pr.shots) =>
                        j <= pr.shots[StageOf(pr.text[j])].records
            /\ pr.pc = "failed" => ~ENABLED NextPrime

\* with a proof-key list, the proof stage was captured and the full-page
\* stage failed: the viewport is over without a full-page or a tile capture
C23_FullPageFailedAfterProof ==
    /\ pr.pc = "failed"
    /\ pr.ViewProof
    /\ pr.stage = 2
    /\ Len(pr.shots) = 1 /\ pr.shots[1].type = "full-proof"
    /\ pr.err = "capture"

\* C24: a priming invocation performs a reload if and only if at least one
\* configured cookie or local-storage entry was set during that invocation.
C24_ReloadIffChanged ==
    pr.pc # "off" =>
        \A k \in 1..Len(pr.primed) :
            pr.primed[k].reloads > 0 <=> pr.primed[k].changed

\* C25: a pass of the cookie loop skips the configured cookie (absent domain
\* defaulted to the target host, absent path to "/") if and only if a cookie
\* the browser held when the priming began has the identical name, path and
\* domain and the same value; in every other case the cookie is set and the
\* priming is marked changed.
C25_SkipIffSameValue ==
    [][pr.pc = "cookie" /\ pr'.pc = "cookie" /\ pr'.i = pr.i + 1 =>
          LET cookie == pr.Cookies[pr.i]
              same == \E c \in pr.jar0 :
                         /\ c.Name = cookie.Name
                         /\ c.Path = (IF cookie.Path = "" THEN "/" ELSE cookie.Path)
                         /\ c.Domain = (IF cookie.Domain = "" THEN "ah" ELSE cookie.Domain)
                         /\ c.Value = cookie.Value
          IN  IF same
              THEN pr'.jar = pr.jar /\ pr'.cookiesChanged = pr.cookiesChanged
              ELSE /\ pr'.cookiesChanged
                   /\ \E c \in pr'.jar : c.Name = cookie.Name /\ c.Value = cookie.Value
      ]_vars

\* C26: a pass of the local-storage loop writes the configured entry if and
\* only if the page holds no entry of that key or one with another value,
\* and only then marks the priming changed; at the end of the loop the
\* priming needs a refresh exactly when a cookie or an entry was marked.
C26_WrittenIffDiffers ==
    [][/\ pr.pc = "storage" /\ pr'.pc = "storage" /\ pr'.i = pr.i + 1 =>
            LET item == pr.LocalStorage[pr.i]
                holds == \E e \in pr.storage :
                            e.Key = item.Key /\ e.Value = item.Value
            IN  IF holds
                THEN /\ pr'.storage = pr.storage
                     /\ pr'.storageChanged = pr.storageChanged
                ELSE /\ pr'.storage =
                            {e \in pr.storage : e.Key # item.Key} \cup {item}
                     /\ pr'.storageChanged
       /\ pr.pc = "storage" /\ pr'.pc = "refresh" =>
            pr'.needsRefresh = (pr.cookiesChanged \/ pr.storageChanged)
      ]_vars

\* in a later stage the loop is over and every entry was skipped: the page
\* still holds what the first stage wrote, and nothing is marked changed
C26_SecondStageSkipped ==
    /\ pr.pc = "storage"
    /\ pr.stage > 1
    /\ Len(pr.LocalStorage) > 0
    /\ pr.i > Len(pr.LocalStorage)
    /\ ~pr.storageChanged
    /\ pr.storage = {pr.LocalStorage[1]}

\* C27 (amended): in every capture stage the "before" record is written
\* after the navigation and before the priming reads or sets a cookie; in a
\* stage that primes (cookies or local-storage entries are configured) the
\* "after" record is written after all cookie and local-storage writes and
\* after the priming reload, or at once when nothing changed, and before the
\* screenshot; a stage of a target with nothing configured writes no
\* "after" record.
C27_RecordsAroundPriming ==
    pr.pc \notin {"off", "failed"} =>
        LET n == Len(pr.text)
            primes == Len(pr.Cookies) > 0 \/ Len(pr.LocalStorage) > 0
            before == IF PrType = "viewport" THEN "before-viewport" ELSE "before"
            after == IF PrType = "viewport" THEN "after-viewport" ELSE "after"
        IN  /\ pr.pc = "navigate" => \A j \in 1..n : pr.text[j].type # PrType
            /\ pr.pc \in {"prime", "cookie", "storage", "refresh", "after"} =>
                  /\ n > 0
                  /\ pr.text[n].type = PrType /\ pr.text[n].stage = before
                  /\ pr.text[n].cookies = IF pr.pc = "prime" THEN pr.jar ELSE pr.jar0
            /\ pr.pc \in {"reload", "capture"} /\ primes =>
                  /\ n > 1
                  /\ pr.text[n].type = PrType /\ pr.text[n].stage = after
                  /\ pr.text[n].cookies = pr.jar
                  /\ pr.text[n - 1].type = PrType /\ pr.text[n - 1].stage = before
                  /\ pr.primed[Len(pr.primed)].type = PrType
                  /\ pr.primed[Len(pr.primed)].reloads = pr.reloads
                  /\ pr.needsRefresh => pr.reloads > 0
            /\ pr.pc = "capture" /\ ~primes =>
                  /\ n > 0
                  /\ pr.text[n].type = PrType /\ pr.text[n].stage = before
            /\ ~primes =>
                  \A j \in 1..n : pr.text[j].stage \in {"before", "before-viewport"}
            /\ \A k \in 1..Len(pr.shots) :
                  /\ pr.shots[k].records > 0
                  /\ pr.text[pr.shots[k].records].type = pr.shots[k].type
                  /\ pr.text[pr.shots[k].records].stage
                        \in (IF primes THEN {"after", "after-viewport"}
                                       ELSE {"before", "before-viewport"})

\* a stage is about to take its screenshot: its priming set a cookie and
\* reloaded, and the last record is its "after" record with the cookie in it
C27_AfterRecordHasWrites ==
    /\ pr.pc = "capture"
    /\ pr.jar # pr.jar0
    /\ pr.reloads > 0
    /\ Len(pr.text) > 1
    /\ pr.text[Len(pr.text)].stage \in {"after", "after-viewport"}
    /\ pr.text[Len(pr.text)].cookies = pr.jar
    /\ pr.text[Len(pr.text) - 1].cookies = pr.jar0

\* C27 as stated: in every capture stage an "after" record of the stage is
\* written before the stage's screenshot is taken.
C27_AfterRecordInEveryStage ==
    pr.pc # "off" =>
        \A k \in 1..Len(pr.shots) :
            \E j \in 1..pr.shots[k].records :
                /\ pr.text[j].type = pr.shots[k].type
                /\ pr.text[j].stage \in {"after", "after-viewport"}

C29_MetricsAsMeasured ==
    full.pc # "off" =>
        /\ Len(full.metrics) >= 1 =>
              /\ full.metrics[1].width = full.scrollWidth
              /\ full.metrics[1].height =
                    IF full.scrollHeight > 16384 THEN 16384 ELSE full.scrollHeight
        /\ \A k \in 1..Len(full.metrics) : full.metrics[k].height <= 16384
        /\ full.attempts <= 2
        /\ full.attempts <= Len(full.metrics)
        /\ full.attempts = 2 \/ full.pc \in {"reduce", "recapture"} =>
              full.metrics[1].height > 8192
        /\ Len(full.metrics) = 2 =>
              full.metrics[2] = [width |-> full.scrollWidth, height |-> 8192]
        /\ full.err = "capture" /\ full.attempts = 1 =>
              full.metrics[1].height <= 8192
        /\ full.pc \in {"write", "done"} =>
              full.image = full.metrics[Len(full.metrics)]

\* C30: every tile task goes through scroll, settle delay and device metrics,
\* capture, persist in this order and leaves it only by failing; the device
\* metrics under which a tile is captured are exactly the viewport's width
\* and height, never those the full-page capture left; and a tile image is
\* persisted only when the capture of that tile succeeded: the persisting
\* step starts from a captured buffer, and a tile that reported an error has
\* no image.
C30_TileSteps ==
    /\ [](\A t \in T, v \in V : \A k \in 1..Len(tiles[t][v]) :
            /\ tiles[t][v][k].pc = "write" =>
                  /\ tiles[t][v][k].buf # -1
                  /\ tiles[t][v][k].metrics =
                        [width |-> cfg.URLs[t].Viewports[v].Width,
                         height |-> cfg.URLs[t].Viewports[v].Height]
                  /\ tiles[t][v][k].metrics.height # pageHeight[t]
            /\ (\E j \in DOMAIN sent.tiles[t][v] : sent.tiles[t][v][j].i = k - 1) =>
                  [kind |-> "tile", t |-> t, v |-> v, n |-> k] \notin files)
    /\ [][\A t \in T, v \in V : \A k \in 1..Len(tiles[t][v]) :
             LET from == tiles[t][v][k].pc
                 to == tiles'[t][v][k].pc
                 image == [kind |-> "tile", t |-> t, v |-> v, n |-> k]
             IN  /\ from # to =>
                       \/ <<from, to>> \in {<<"acquire", "scroll">>, <<"scroll", "metrics">>,
                                            <<"metrics", "capture">>, <<"capture", "write">>,
                                            <<"write", "done">>}
                       \/ /\ to = "done"
                          /\ Len(sent'.tiles[t][v]) = Len(sent.tiles[t][v]) + 1
                 /\ image \in files' /\ image \notin files =>
                       from = "write" /\ to = "done"
                 /\ <<from, to>> = <<"metrics", "capture">> =>
                       sessions'[browserCtx[t][v]].metrics =
                           [width |-> cfg.URLs[t].Viewports[v].Width,
                            height |-> cfg.URLs[t].Viewports[v].Height]
      ]_vars

\* a tile was captured under the viewport's metrics on a page taller than the
\* viewport, while the image of another tile of the viewport is persisted
\* and a third tile has not scrolled yet
C30_TileCapturedUnderViewportMetrics ==
    \E t \in T, v \in V : \E k, j, l \in 1..Len(tiles[t][v]) :
        /\ tiles[t][v][k].pc = "write"
        /\ tiles[t][v][k].metrics = TileMetrics(t, v)
        /\ FullMetrics(t, v) # TileMetrics(t, v)
        /\ [kind |-> "tile", t |-> t, v |-> v, n |-> j] \in files
        /\ tiles[t][v][l].pc \in {"acquire", "scroll"}

(***************************************************************************)
(* No retry across viewports.                                              *)
(***************************************************************************)
\* the position of a viewport goroutine, as a number that grows along its body
Rank(pc) ==
    CASE pc = "idle" -> 0 [] pc = "acquire" -> 1 [] pc = "run" -> 2
      [] pc = "tilewait" -> 3 [] pc = "teardown" -> 4 [] pc = "exit" -> 5
      [] pc = "done" -> 6

\* C31: nothing is retried across viewport boundaries: only the (target,
\* viewport) pairs of the configuration get a goroutine; a goroutine only
\* moves forward through its body and a finished one, failed or not, stays
\* finished with its error and its images as they are; a pair creates its
\* browser session in its one call of captureWithViewport and never another
\* one, and a closed session is not reopened; when CaptureURLs has returned
\* every pair of every target whose directory was created has been
\* processed, once.
C31_NoRetry ==
    /\ [](\A t \in T, v \in V :
            /\ vpc[t][v] # "idle" => t <= NumURLs /\ v <= NumViewports(t)
            /\ browserCtx[t][v] \in {0, SessionId(t, v)}
            /\ vpc[t][v] \in {"idle", "acquire", "run"} => browserCtx[t][v] = 0)
    /\ [](Finished =>
            \A t \in 1..NumURLs : \A v \in 1..NumViewports(t) :
                ~UrlDirFailed(t) => vpc[t][v] = "done")
    /\ [][\A t \in T, v \in V :
            /\ Rank(vpc'[t][v]) >= Rank(vpc[t][v])
            /\ Rank(vpc'[t][v]) > Rank(vpc[t][v]) /\ vpc[t][v] = "idle" =>
                  tpc[t] = "start"
            /\ browserCtx'[t][v] # browserCtx[t][v] =>
                  /\ vpc[t][v] = "run"
                  /\ browserCtx[t][v] = 0
                  /\ sessions[SessionId(t, v)].state = "none"
            /\ sessions[SessionId(t, v)].state = "closed" =>
                  sessions'[SessionId(t, v)].state = "closed"
            /\ sessions[SessionId(t, v)].state = "none"
                  /\ sessions'[SessionId(t, v)].state # "none" => vpc[t][v] = "run"
            /\ vpc[t][v] = "done" =>
                  /\ vpc'[t][v] = "done"
                  /\ vErr'[t][v] = vErr[t][v]
                  /\ {f \in files' : f.t = t /\ f.v = v}
                        = {f \in files : f.t = t /\ f.v = v}]_vars

\* the run is over; a viewport failed after it had created its session, the
\* session is closed, and a later viewport of the same target was processed
\* and succeeded
C31_FailedViewportStaysFailed ==
    /\ Finished
    /\ \E t \in T, v \in V, w \in V :
          /\ v < w
          /\ vpc[t][v] = "done" /\ vErr[t][v] # NoErr
          /\ browserCtx[t][v] # 0 /\ sessions[browserCtx[t][v]].state = "closed"
          /\ vpc[t][w] = "done" /\ vErr[t][w] = NoErr /\ browserCtx[t][w] # 0

\* C31 as stated: in one run every (target, viewport) pair of the
\* configuration is processed
C31_EveryPairProcessed ==
    Finished => \A t \in 1..NumURLs : \A v \in 1..NumViewports(t) : vpc[t][v] = "done"

(***************************************************************************)
(* The check-then-start sequence of startDockerChrome under concurrency.   *)
(***************************************************************************)
\* the tasks that went to the remote backend
TriedRemote == {i \in W : "remote" \in Tried(i)}

\* C32: the check-then-start sequence of startDockerChrome is not atomic,
\* and only a concurrent caller can make it fail: docker run finds the name
\* chrome taken only when another task of the process started the container
\* after this task saw none running (or removed the stale one), and only
\* beside another caller is an instance removed that a call has verified.
C32_OnlyConcurrentCallersCollide ==
    /\ \A i \in W :
          be.pc # "off" /\ be.task[i].conflict =>
              /\ ~be.task[i].fresh /\ ~be.task[i].checked
              /\ \E j \in W \ {i} : be.task[j].fresh
    /\ be.pc # "off" /\ be.removedVerified => Cardinality(TriedRemote) >= 2

\* docker mode: both tasks went on to docker run (each after it saw no
\* running container or removed a stale one); one started the container and
\* got its session on it, the other found the name taken and failed its
\* viewport
C32_BothStartedOneFailed ==
    /\ be.pc # "off" /\ be.ChromeMode = "docker"
    /\ \E i, j \in W :
          /\ i # j
          /\ be.task[i].conflict /\ be.task[i].err = "resolve"
          /\ be.task[i].tried = <<"remote">> /\ be.task[i].polls = 0
          /\ be.task[j].fresh /\ be.task[j].backend = "remote"
          /\ be.task[j].session /\ be.task[j].err = "nil"

(***************************************************************************)
(* A started container that does not answer.                               *)
(***************************************************************************)
\* task i started a container and its poll loop ended without an answer
GaveUp(i) == be.task[i].fresh /\ ~be.task[i].checked /\ be.task[i].pc \in {"session", "done"}

\* C33: when the container a call of startDockerChrome started does not
\* answer within the poll loop, the call reads the logs of the container
\* named chrome, removes it and returns an error with the logs: the task
\* does not get the remote backend (its viewport fails, or falls back in
\* auto mode), the logs are those of the container it started unless another
\* caller or the signal handler removed that one in between, and no
\* container this call started exists after the return.
C33_UnresponsiveInstanceRemoved ==
    \A i \in W :
        be.pc # "off" =>
            /\ GaveUp(i) =>
                  /\ be.task[i].logs # -1
                  /\ be.task[i].backend # "remote"
                  /\ IF be.ChromeMode = "docker"
                     THEN be.task[i].err = "resolve" /\ ~be.task[i].session
                     ELSE be.task[i].backend = "fallback"
                  /\ be.task[i].logs = i
                        \/ Cardinality(TriedRemote) >= 2
                        \/ be.handler # "idle"
                  /\ be.container.state # "absent" => be.container.starter # i
            /\ be.task[i].logs # -1 => GaveUp(i)

\* docker mode, one caller at the remote backend and no interrupt: the task
\* started the container, gave up on it with the container's logs in its
\* error, the viewport failed and no container is left
C33_GaveUpWithOwnLogs ==
    /\ be.pc = "capture" /\ be.ChromeMode = "docker" /\ be.handler = "idle"
    /\ \E i \in W :
          /\ GaveUp(i)
          /\ be.task[i].logs = i
          /\ be.task[i].err = "resolve"
          /\ TriedRemote = {i}
          /\ be.container.state = "absent"

(***************************************************************************)
(* The liveness poll.                                                      *)
(***************************************************************************)
\* the n of the call of checkChromeResponseFromContainer(n) task i made last
MaxRetries(i) == IF be.task[i].fresh THEN FreshPolls ELSE ReusePolls

\* C34: checkChromeResponseFromContainer(n) makes at most n attempts; an
\* attempt that is answered returns success at once, so that a success
\* follows failed attempts only; after failed attempt i (from 0) it sleeps
\* 1 s + 150 ms * i, each pause longer than the one before; it returns the
\* timeout error after exactly n failed attempts.
C34_BoundedEscalatingPoll ==
    /\ [](be.pc # "off" =>
            \A i \in W :
                LET task == be.task[i]
                    n == MaxRetries(i)
                IN  /\ task.probes <= n
                    /\ \A k \in 1..Len(task.waits) :
                          task.waits[k] = 1000 + 150 * (k - 1)
                    /\ \A k \in 2..Len(task.waits) :
                          task.waits[k] > task.waits[k - 1]
                    /\ task.pc = "poll" =>
                          /\ task.probes = Len(task.waits)
                          /\ task.probes = n - task.polls
                          /\ task.probes < n
                    /\ task.checked =>
                          task.probes = Len(task.waits) + 1
                    /\ task.pc \in {"stale", "giveup"} =>
                          task.probes = n /\ Len(task.waits) = n
                    /\ task.probes = n /\ ~task.checked /\ n > 0 =>
                          task.pc # "poll" /\ task.backend # "remote")
    /\ [][\A i \in W :
            be.pc # "off" /\ be.task[i].pc = "poll" /\ be'.task[i] # be.task[i] =>
                IF be.container.state = "healthy"
                THEN /\ be'.task[i].pc = "session"
                     /\ be'.task[i].checked
                     /\ be'.task[i].waits = be.task[i].waits
                ELSE /\ ~be'.task[i].checked
                     /\ be'.task[i].waits =
                           Append(be.task[i].waits, 1000 + 150 * be.task[i].probes)
                     /\ be'.task[i].pc = "poll" <=> be.task[i].probes + 1 < MaxRetries(i)]_vars

\* the poll of a started container timed out after all its attempts, with
\* pauses of 1000 ms, 1150 ms and 1300 ms
C34_TimedOutAfterAllAttempts ==
    /\ be.pc # "off"
    /\ \E i \in W :
          /\ be.task[i].pc = "giveup"
          /\ be.task[i].probes = FreshPolls
          /\ Len(be.task[i].waits) = FreshPolls
          /\ be.task[i].waits[1] = 1000
          /\ be.task[i].waits = <<1000, 1150, 1300>>

C36_TilesCoverPage ==
    LET ph == seg.pageHeight
        vh == seg.viewportHeight
        last == IF ph - vh > 0 THEN ph - vh ELSE 0
    IN  SegMeasured /\ ph > 0 /\ vh >= 1 =>
            /\ \A k \in 1..Len(seg.shots) :
                  seg.shots[k].at >= 0 /\ seg.shots[k].at <= last
            /\ seg.pc = "done" =>
                  \A row \in 0..(ph - 1) :
                      \E k \in 1..Len(seg.shots) :
                          /\ seg.shots[k].at <= row
                          /\ row < seg.shots[k].at + vh

\* the tile stage of a page that is not a multiple of the viewport is over:
\* the final tile starts inside the range of the tile before it and ends
\* with the page
C36_FinalTileOverlaps ==
    /\ seg.pc = "done"
    /\ seg.viewportCount >= 3
    /\ seg.pageHeight % seg.viewportHeight # 0
    /\ Len(seg.shots) = seg.viewportCount
    /\ seg.shots[seg.viewportCount].at + seg.viewportHeight = seg.pageHeight
    /\ seg.shots[seg.viewportCount].at
          < seg.shots[seg.viewportCount - 1].at + seg.viewportHeight

(***************************************************************************)
(* The files of a tile stage.                                              *)
(***************************************************************************)
\* the indices under which tiles of viewport <<t, v>> are persisted
Persisted(t, v) == {f.n : f \in {g \in files : g.kind = "tile" /\ g.t = t /\ g.v = v}}
\* the tiles of viewport <<t, v>> whose task reported an error
FailedTiles(t, v) ==
    {sent.tiles[t][v][k].i : k \in 1..Len(sent.tiles[t][v])}

\* C37: in a tile stage with n tiles, tile i is persisted under index i + 1:
\* the persisted indices are those of the tile tasks that ended without an
\* error, whatever the order in which the tasks ran; a tile task writes a
\* file that no task wrote before it; and when the stage returned without an
\* error the persisted indices are exactly 1..n.
C37_TileFilesByIndex ==
    /\ [](\A t \in T, v \in V :
            LET n == Len(tiles[t][v])
            IN  n > 0 =>
                  /\ Persisted(t, v) \subseteq 1..n
                  /\ \A i \in 0..(n - 1) :
                        (i + 1) \in Persisted(t, v) <=>
                            tiles[t][v][i + 1].pc = "done" /\ i \notin FailedTiles(t, v)
                  /\ vpc[t][v] \in {"teardown", "exit", "done"} /\ vErr[t][v] = NoErr =>
                        Persisted(t, v) = 1..n)
    /\ [][\A t \in T, v \in V : \A k \in 1..Len(tiles[t][v]) :
            tiles[t][v][k].pc = "write" /\ tiles'[t][v][k].pc = "done"
              /\ sent'.tiles[t][v] = sent.tiles[t][v] =>
                /\ k \notin Persisted(t, v)
                /\ files' = files \cup {[kind |-> "tile", t |-> t, v |-> v, n |-> k]}]_vars

\* a tile stage of three or more tiles returned without an error
C37_AllTilesPersisted ==
    \E t \in T, v \in V :
        /\ Len(tiles[t][v]) >= 3
        /\ vpc[t][v] = "done" /\ vErr[t][v] = NoErr
        /\ Persisted(t, v) = 1..Len(tiles[t][v])

(***************************************************************************)
(* What a failed priming leaves behind.                                    *)
(***************************************************************************)
\* configured cookie j is set under the same name, path and domain as cookie k
SameCookie(j, k) ==
    /\ pr.Cookies[j].Name = pr.Cookies[k].Name
    /\ PathOf(pr.Cookies[j]) = PathOf(pr.Cookies[k])
    /\ DomainOf(pr.Cookies[j]) = DomainOf(pr.Cookies[k])

\* the jar is the jar the priming started with plus the differing ones of the
\* configured cookies before the n-th, each with the value set last
CookiesSetBefore(n) ==
    LET written == {j \in 1..(n - 1) : ~PrKnown(pr.Cookies[j])}
        Hit(c) == \E j \in written :
                     /\ c.Name = pr.Cookies[j].Name
                     /\ c.Path = PathOf(pr.Cookies[j])
                     /\ c.Domain = StoredDomain(DomainOf(pr.Cookies[j]), pr.dotted)
    IN  /\ \A j \in written :
              \E c \in pr.jar :
                  /\ c.Name = pr.Cookies[j].Name
                  /\ c.Path = PathOf(pr.Cookies[j])
                  /\ c.Domain = StoredDomain(DomainOf(pr.Cookies[j]), pr.dotted)
                  /\ \E last \in written :
                        /\ SameCookie(last, j)
                        /\ \A later \in written : SameCookie(later, j) => later <= last
                        /\ c.Value = pr.Cookies[last].Value
        /\ {c \in pr.jar : ~Hit(c)} = {c \in pr.jar0 : ~Hit(c)}

\* the storage holds, for the entries before the n-th, the value set last
ItemsSetBefore(n) ==
    /\ \A j \in 1..(n - 1) :
          \E last \in j..(n - 1) :
              /\ pr.LocalStorage[last].Key = pr.LocalStorage[j].Key
              /\ \A later \in (last + 1)..(n - 1) :
                    pr.LocalStorage[later].Key # pr.LocalStorage[j].Key
              /\ GetItem(pr.storage, pr.LocalStorage[j].Key) = pr.LocalStorage[last].Value
    /\ n = 1 => pr.storage = pr.storage0

\* C38: priming processes every configured cookie before any local-storage
\* entry and does not roll back: while the cookie loop runs, and when setting
\* the k-th cookie failed, the differing cookies before the k-th are set and
\* the local storage is as the priming found it; while the storage loop
\* runs, and when setting the k-th entry failed, every differing cookie is
\* set and the entries before the k-th have their configured values.
C38_NoRollback ==
    /\ pr.pc = "cookie" \/ (pr.pc = "failed" /\ pr.err = "cookie") =>
          /\ CookiesSetBefore(pr.i)
          /\ pr.storage = pr.storage0
    /\ pr.pc = "storage" \/ (pr.pc = "failed" /\ pr.err = "storage") =>
          /\ CookiesSetBefore(Len(pr.Cookies) + 1)
          /\ ItemsSetBefore(pr.i)

\* setting the second cookie failed: the first cookie, which differed, is in
\* the jar, and the configured local-storage entry has not been written
C38_SecondCookieFailed ==
    /\ pr.pc = "failed" /\ pr.err = "cookie"
    /\ pr.i = 2
    /\ ~PrKnown(pr.Cookies[1])
    /\ pr.jar # pr.jar0
    /\ Len(pr.LocalStorage) > 0
    /\ GetItem(pr.storage, pr.LocalStorage[1].Key) # pr.LocalStorage[1].Value

(***************************************************************************)
(* The number of live sessions.                                            *)
(***************************************************************************)
\* the live browser sessions created by the viewport tasks of target t
LiveSessions(t) ==
    {s \in SessionIds : sessions[s].state = "live" /\ sessions[s].owner[1] = t}

\* C39: at any time at most 3 browser sessions of one target are live, and
\* at most 3 * concurrency of the whole run: the task of a live session holds
\* a slot of its target's viewport pool, the target holds a slot of sem, and
\* at most concurrency targets have a live session at a time.
C39_LiveSessionsBounded ==
    /\ \A t \in T :
          /\ Cardinality(LiveSessions(t)) <= 3
          /\ Cardinality(LiveSessions(t)) <= viewportSem[t]
          /\ \A s \in LiveSessions(t) :
                /\ sessions[s].owner[2] \in RunningViewports(t)
                /\ browserCtx[t][sessions[s].owner[2]] = s
          /\ LiveSessions(t) # {} => t \in RunningTargets
    /\ Cardinality({t \in T : LiveSessions(t) # {}}) <= cfg.Concurrency
    /\ Cardinality(RunningTargets) <= sem /\ sem <= cfg.Concurrency
    /\ Cardinality({s \in SessionIds : sessions[s].state = "live"}) <= 3 * cfg.Concurrency

\* three sessions of one target are live while its fourth viewport waits for
\* a slot of the viewport pool
C39_ThreeLiveOneWaiting ==
    \E t \in T :
        /\ Cardinality(LiveSessions(t)) = 3
        /\ \E v \in V : vpc[t][v] = "acquire"

(***************************************************************************)
(* The overlay block of the proof stage.                                   *)
(***************************************************************************)
\* the proof stage is past the action that adds the overlay block
PastOverlay ==
    /\ full.pc \notin {"off", "extract", "overlay"}
    /\ full.ViewProof # {}
    /\ full.pc = "failed" => full.err # "overlay"

\* C40: in the proof stage the overlay block is injected exactly when the
\* cookies could be read and either a cookie is named like a configured
\* proof key (whatever its value) or a configured proof key has a non-empty
\* value in the local storage that could be read; the proof image is
\* captured and persisted with and without the block; a failure to read the
\* cookies does not fail the stage, which then goes on without the block.
C40_OverlayIffExtracted ==
    /\ PastOverlay =>
          (full.overlay <=>
              /\ ~full.readFailed
              /\ \/ \E c \in full.jar : c.Name \in full.ViewProof
                 \/ \E k \in full.ViewProof \ full.unread :
                       GetItem(full.storage, k) \notin {"", "null"})
    /\ full.pc # "off" =>
          /\ full.err # "extract"
          /\ full.readFailed => ~full.overlay /\ full.viewproofData = {}
          /\ full.readFailed /\ full.pc = "failed" =>
                full.err \in {"measure", "override", "capture", "write"}
          /\ full.overlay => full.viewproofData # {}
          /\ full.written <=> full.pc = "done"
          /\ full.pc = "done" => full.attempts >= 1 /\ full.image.width = full.viewportWidth

\* the cookies could not be read: the proof image is persisted without the
\* block although a proof key has a value in the local storage
C40_PersistedAfterFailedRead ==
    /\ full.pc = "done" /\ full.written
    /\ full.readFailed
    /\ ~full.overlay
    /\ \E k \in full.ViewProof : GetItem(full.storage, k) = "1"

\* C40 as stated: the block is injected if and only if a configured proof
\* key has a non-empty value among the cookies or in the local storage
C40_OverlayIffNonEmptyValue ==
    PastOverlay =>
        (full.overlay <=>
            \E k \in full.ViewProof :
                \/ \E c \in full.jar : c.Name = k /\ c.Value # ""
                \/ GetItem(full.storage, k) \notin {"", "null"})
====
